---- MODULE Spec2Model ----
(***************************************************************************)
(* Verification model of the optimization and dispatch pipeline of the     *)
(* Bedrock RAG demo: RetryPolicy (retry_bedrock_call), ProviderAdapter     *)
(* (chat_with_bedrock, chat_stream, invoke_model_stream), PromptCache and  *)
(* the Orchestrator (OptimizedRAG.answer_with_optimization[_stream]).      *)
(* The local vector search of src/main.py and the request bodies of the    *)
(* generation entry points are modelled as components of their own.        *)
(*                                                                         *)
(* Texts are sequences of one-character strings, so that str.split(),      *)
(* slicing and concatenation are computed and not assumed.  Times are in   *)
(* tenths of a second.                                                     *)
(***************************************************************************)
EXTENDS Integers, Sequences, FiniteSets, TLC

VARIABLES
    \* ---- retry_bedrock_call (src/app.py, src/ui/rag_ui.py) ----
    rVariant,     \* "app" or "rag_ui": which retry_bedrock_call runs
    rRetries,     \* the retries argument
    rBase,        \* base_delay (app) / delay (rag_ui)
    rMax,         \* max_delay (app only)
    rAttempt,     \* the loop variable of the next iteration
    rPc,          \* "loop" while iterating, "done" after return
    rLog,         \* outcome of every call of func made so far
    rSleeps,      \* [kind, attempt, time] of every time.sleep made so far
    rReturned,    \* value returned by the last call of func that did not raise
    rResult,      \* value returned by retry_bedrock_call
    \* ---- ProviderAdapter (src/bedrock_app/chat.py) ----
    aModel,       \* model_id
    aEntry,       \* streaming entry point: "chat_stream" or "invoke_model_stream"
    aDeltas,      \* the simulated provider's response text, cut into its deltas
    aFailAt,      \* NoFail, or the number of stream events delivered before
                  \* the endpoint raises (0: the call itself raises)
    aBlockPc,     \* "idle" / "done": chat_with_bedrock
    aBlockResult, \* value returned by chat_with_bedrock
    aBlockCalls,  \* invoke_model calls made by chat_with_bedrock
    sPc,          \* per character_stream flag: "idle", "open", "done"
    sPending,     \* per flag: fragments the generator has still to yield
    sYielded,     \* per flag: fragments yielded to the consumer so far
    sCalls,       \* per flag: invoke_model_with_response_stream calls made
    \* ---- the stores OptimizedRAG holds ----
    respCache,    \* PromptCache response cache: key -> entry
    chunkCache,   \* PromptCache chunk cache: chunk content -> metadata
    memory,       \* ContextMemoryStore: the stored records, oldest first
    vstore,       \* VectorStoreManager: the embedded documents
    cOps,         \* the direct PromptCache calls made so far, with their results
    \* ---- one question of run_rag_ui (src/ui/rag_ui.py) ----
    gModel,       \* chat_model['id']
    gCalls,       \* outcomes of the invoke_model calls made, in order
    gHistory,     \* roles of the entries of message_history
    gAnswer,      \* the answer printed to the user, None before that
    \* ---- one call of OptimizedRAG._extract_tags ----
    tQuestion,    \* question
    tTags,        \* the list returned
    tPc,          \* "idle" / "done"
    \* ---- the local vector search of src/main.py ----
    lDocs,        \* per loaded document, what embed_with_bedrock does for it
    lQuery,       \* what embed_with_bedrock does for the query text
    lTopK,        \* top_k
    lStore,       \* the list built by build_vector_store_from_folder
    lResult,      \* the list returned by semantic_search_local
    lPc,          \* "idle" / "loaded" / "built" / "searched" / "raised"
    \* ---- one call of a generation entry point, seen as request and decode ----
    dEntry,       \* the function called
    dModel,       \* model_id
    dHistory,     \* len(message_history) of the caller
    dBody,        \* the request body built
    dDecodedAs,   \* the family whose response schema the decode reads
    dPc,          \* "idle" / "called" / "sent" / "decoded" / "unsupported"
    \* ---- one request of OptimizedRAG (src/bedrock_app/optimized_rag.py) ----
    oModel,       \* model_id
    oMode,        \* "blocking": answer_with_optimization,
                  \* "stream": answer_with_optimization_stream
    oQuestion,    \* user_question
    oUseCache,    \* use_cache
    oStoreMemory, \* store_memory
    oRetrievePast,\* retrieve_past_contexts
    oHistory,     \* the caller's message_history list
    oPc,          \* position of the request's control flow
    oStats,       \* the stats dict
    oPast,        \* past_contexts
    oResults,     \* retrieved_results
    oContext,     \* combined_context
    oGenContext,  \* the context argument of the generation call, once made
    oFull,        \* response / full_response
    oPending,     \* fragments the running generator has still to yield
    oYielded,     \* (token, stats copy) pairs delivered to the consumer
    oResult,      \* the dict returned by answer_with_optimization
    oTrace,       \* the effects of the request, in order
    oStart,       \* the stores as they were when the request started
    oRequests,    \* number of requests started
    \* ---- the same request made in both modes, one after the other ----
    eRun,         \* the simulated provider output, the caller's history and
                  \* what the blocking call delivered and left behind
    \* ---- one turn of a chat front end (src/ui/chat_ui.py, src/app.py) ----
    uTurn         \* the front end, the history list, the messages sent, the
                  \* prompt cache and the position in the turn

retryVars == <<rVariant, rRetries, rBase, rMax, rAttempt, rPc, rLog, rSleeps,
               rReturned, rResult>>

adapterVars == <<aModel, aEntry, aDeltas, aFailAt, aBlockPc, aBlockResult,
                 aBlockCalls, sPc, sPending, sYielded, sCalls>>

storeVars == <<respCache, chunkCache, memory, vstore>>

orchVars == <<oModel, oMode, oQuestion, oUseCache, oStoreMemory, oRetrievePast,
              oHistory, oPc, oStats, oPast, oResults, oContext, oGenContext,
              oFull, oPending, oYielded, oResult, oTrace, oStart, oRequests>>

ragUiVars == <<gModel, gCalls, gHistory, gAnswer>>

tagVars == <<tQuestion, tTags, tPc>>

searchVars == <<lDocs, lQuery, lTopK, lStore, lResult, lPc>>

dispatchVars == <<dEntry, dModel, dHistory, dBody, dDecodedAs, dPc>>

\* no two-mode comparison is under way
EquivIdle == eRun = [phase |-> "off"]

\* no front-end turn is under way
TurnIdle == uTurn = [pc |-> "off"]

vars == <<retryVars, adapterVars, storeVars, orchVars, cOps, ragUiVars, tagVars,
          searchVars, dispatchVars, eRun, uTurn>>

\* what the steps of one component leave alone: the other components
notRetry == <<adapterVars, storeVars, orchVars, cOps, ragUiVars, tagVars,
    searchVars, dispatchVars, eRun, uTurn>>
notAdapter == <<retryVars, storeVars, orchVars, cOps, ragUiVars, tagVars,
    searchVars, dispatchVars, eRun, uTurn>>
notOrch == <<retryVars, adapterVars, cOps, ragUiVars, tagVars,
    searchVars, dispatchVars, eRun, uTurn>>
notCache == <<retryVars, adapterVars, orchVars, memory, vstore, ragUiVars, tagVars,
    searchVars, dispatchVars, eRun, uTurn>>
notRagUi == <<adapterVars, storeVars, orchVars, cOps, tagVars,
    searchVars, dispatchVars, eRun, uTurn>>
notTags == <<retryVars, adapterVars, storeVars, orchVars, cOps, ragUiVars,
    searchVars, dispatchVars, eRun, uTurn>>
notSearch == <<retryVars, adapterVars, storeVars, orchVars, cOps, ragUiVars, tagVars,
    dispatchVars, eRun, uTurn>>
notDispatch == <<retryVars, adapterVars, storeVars, orchVars, cOps, ragUiVars, tagVars,
    searchVars, eRun, uTurn>>
notEquiv == <<retryVars, adapterVars, cOps, ragUiVars, tagVars,
    searchVars, dispatchVars, uTurn>>
notTurn == <<retryVars, adapterVars, storeVars, orchVars, cOps, ragUiVars, tagVars,
    searchVars, dispatchVars, eRun>>

(***************************************************************************)
(* Text helpers                                                            *)
(***************************************************************************)
\* None, a value no text is equal to
None == <<"None">>

\* a KeyError raised by a subscript on a missing response field
KeyError == <<"KeyError">>

\* str.isspace for the characters of the model's alphabet
IsSpace(ch) == ch \in {" ", "\n"}

RECURSIVE Concat(_)
\* "".join(parts)
Concat(parts) ==
    IF parts = <<>> THEN <<>> ELSE Head(parts) \o Concat(Tail(parts))

(***************************************************************************)
(* RetryPolicy                                                             *)
(***************************************************************************)
\* largest retries argument explored
MaxRetriesArg == 5
\* time.sleep(1) of the non-throttling branch, in tenths of a second
OtherErrorSleep == 10
\* upper end of random.uniform(0, 0.5), in tenths of a second
JitterMax == 5

\* the terminal-failure values: plain str objects
AppSentinel == <<"T", "h", "r", "o", "t", "t", "l", "e", "d">>
RagUiSentinel == <<"!", "T", "h", "r", "o", "t", "t", "l", "e", "d">>

Sentinel(variant) == IF variant = "app" THEN AppSentinel ELSE RagUiSentinel

\* values the wrapped callable can return: func is an arbitrary callable that
\* returns None or a str (answer_with_context returns the model's text)
FuncReturns == {None, <<>>, <<"o", "k">>, AppSentinel, RagUiSentinel}

\* base_delay / delay and max_delay arguments explored (1 s and 15 s are the
\* defaults)
BaseDelays == {5, 10, 40}
MaxDelays == {10, 150}

Min(a, b) == IF a <= b THEN a ELSE b

\* the backoff without its cap
BackoffUncapped(base, maxd, attempt) == base * (2 ^ (attempt - 1))

\* app.py: min(base_delay * (2 ** (attempt - 1)), max_delay)
Backoff(base, maxd, attempt) == Min(base * (2 ^ (attempt - 1)), maxd)

\* app.py: sleep_time = min(...); sleep_time += random.uniform(0, 0.5)
ThrottleSleep(base, maxd, attempt, jitter) == Backoff(base, maxd, attempt) + jitter

\* rag_ui.py: delay * (2 ** attempt), attempt counted from 0
RagUiSleep(delay, attempt0) == delay * (2 ^ attempt0)

\* the retry policy, idle: no retry_bedrock_call is running
RetryIdle ==
    /\ rVariant = "app"
    /\ rRetries = 1
    /\ rBase = 10
    /\ rMax = 150
    /\ rAttempt = 1
    /\ rPc = "done"
    /\ rLog = <<>>
    /\ rSleeps = <<>>
    /\ rReturned = None
    /\ rResult = None

RetryInit ==
    /\ rVariant \in {"app", "rag_ui"}
    /\ rRetries \in 1..MaxRetriesArg
    /\ rBase \in BaseDelays
    /\ rMax \in MaxDelays
    /\ rAttempt = 1
    /\ rPc = "loop"
    /\ rLog = <<>>
    /\ rSleeps = <<>>
    /\ rReturned = None
    /\ rResult = None

\* what follows a failed iteration: the next iteration, or the loop ends and
\* the function returns its terminal-failure string
AfterFailure ==
    /\ rAttempt' = rAttempt + 1
    /\ IF rAttempt = rRetries
       THEN rPc' = "done" /\ rResult' = Sentinel(rVariant)
       ELSE rPc' = "loop" /\ rResult' = rResult
    /\ UNCHANGED <<rVariant, rRetries, rBase, rMax, rReturned>>
    /\ UNCHANGED notRetry

\* an iteration that drops the value of the successful call
RetryCallOkLosesValue(v) ==
    /\ rPc = "loop"
    /\ rLog' = Append(rLog, "ok")
    /\ rReturned' = v
    /\ rResult' = Sentinel(rVariant)
    /\ rPc' = "done"
    /\ UNCHANGED <<rVariant, rRetries, rBase, rMax, rAttempt, rSleeps>>
    /\ UNCHANGED notRetry

\* an iteration whose func(*args) returns v: return func(*args)
RetryCallOk(v) ==
    /\ rPc = "loop"
    /\ rLog' = Append(rLog, "ok")
    /\ rReturned' = v
    /\ rResult' = v
    /\ rPc' = "done"
    /\ UNCHANGED <<rVariant, rRetries, rBase, rMax, rAttempt, rSleeps>>
    /\ UNCHANGED notRetry

\* an iteration whose func raises an exception whose text has "Throttling" or
\* "Rate exceeded"
RetryCallThrottled(jitter) ==
    /\ rPc = "loop"
    /\ rLog' = Append(rLog, "throttled")
    /\ rSleeps' = Append(rSleeps,
          [kind |-> "throttled", attempt |-> rAttempt,
           time |-> IF rVariant = "app"
                    THEN ThrottleSleep(rBase, rMax, rAttempt, jitter)
                    ELSE RagUiSleep(rBase, rAttempt - 1)])
    /\ AfterFailure

\* an iteration that gives up at the first exception without a throttling
\* text
RetryCallOtherErrorGivesUp ==
    /\ rPc = "loop"
    /\ rLog' = Append(rLog, "error")
    /\ rResult' = Sentinel(rVariant)
    /\ rPc' = "done"
    /\ UNCHANGED <<rVariant, rRetries, rBase, rMax, rAttempt, rSleeps, rReturned>>
    /\ UNCHANGED notRetry

\* an iteration that goes on after another exception without sleeping
RetryCallOtherErrorNoSleep ==
    /\ rPc = "loop"
    /\ rLog' = Append(rLog, "error")
    /\ rSleeps' = rSleeps
    /\ AfterFailure

\* an iteration whose func raises any other Exception
RetryCallOtherError ==
    /\ rPc = "loop"
    /\ rLog' = Append(rLog, "error")
    /\ rSleeps' = Append(rSleeps,
          [kind |-> "error", attempt |-> rAttempt,
           time |-> IF rVariant = "app"
                    THEN OtherErrorSleep
                    ELSE RagUiSleep(rBase, rAttempt - 1)])
    /\ AfterFailure

RetryNext ==
    \/ \E v \in FuncReturns : RetryCallOk(v)
    \/ \E jitter \in 0..JitterMax : RetryCallThrottled(jitter)
    \/ RetryCallOtherError

(***************************************************************************)
(* ProviderAdapter                                                         *)
(***************************************************************************)
\* model ids, one per branch of the dispatch on substrings of model_id
ModelIds == {"anthropic.claude-3-sonnet", "anthropic.claude-v2",
             "amazon.titan-text", "meta.llama3", "mistral.mistral-7b",
             "cohere.command"}

\* 'claude' in model_id.lower()
HasClaude(m) == m \in {"anthropic.claude-3-sonnet", "anthropic.claude-v2"}
\* 'claude-3' in model_id.lower()
HasClaude3(m) == m = "anthropic.claude-3-sonnet"
\* 'titan' in model_id.lower()
HasTitan(m) == m = "amazon.titan-text"
\* 'llama' in model_id.lower()
HasLlama(m) == m = "meta.llama3"
\* 'mistral' in model_id.lower()
HasMistral(m) == m = "mistral.mistral-7b"

\* the if/elif chain that builds the request body; "Unsupported" is its else
Family(m) ==
    IF HasClaude(m) THEN (IF HasClaude3(m) THEN "Claude3" ELSE "ClaudeLegacy")
    ELSE IF HasTitan(m) THEN "Titan"
    ELSE IF HasLlama(m) \/ HasMistral(m) THEN "LlamaMistral"
    ELSE "Unsupported"

Supported(m) == Family(m) # "Unsupported"

\* diagnostic texts
ErrorText == <<"E", "r", "r", "o", "r", ":">>
NotSupportedText == <<"N", "o", "t", " ", "s", "u", "p", "p", "o", "r", "t", "e", "d">>
NoResponseText == <<"N", "o", " ", "r", "e", "s", "p", "o", "n", "s", "e">>

\* ---- the simulated generation endpoint ----
\* number of deltas the simulated provider cuts its text into, at most
MaxFrames == 2
\* aFailAt when the endpoint does not fail
NoFail == 0 - 1

LongText == <<"a", "b", "c", "d", "e", "f", "g", "h", "i", "j", "k", "l">>
DeltaTexts == {<<>>, <<"a">>, LongText}

RECURSIVE SeqsUpTo(_, _)
\* all sequences over S of length at most n
SeqsUpTo(S, n) ==
    IF n = 0 THEN {<<>>}
    ELSE LET shorter == SeqsUpTo(S, n - 1)
         IN shorter \cup {Append(q, x) : q \in {r \in shorter : Len(r) = n - 1}, x \in S}

\* the response body of invoke_model, by the one response field it carries:
\* Claude 3 'content'[0]['text'], Claude 2 'completion', Titan
\* 'results'[0]['outputText'], Llama 'generation', Mistral 'outputs'[0]['text']
BodyField(m) ==
    IF HasClaude3(m) THEN "content"
    ELSE IF HasClaude(m) THEN "completion"
    ELSE IF HasTitan(m) THEN "results"
    ELSE IF HasLlama(m) THEN "generation"
    ELSE IF HasMistral(m) THEN "outputs"
    ELSE "other"

SimBody(m, text) == [field |-> BodyField(m), text |-> text]

\* the field of a stream chunk that carries the text delta: Claude 3
\* 'delta'.'text', Titan 'outputText', Llama 'generation', Mistral
\* 'outputs'[0].'text'; Claude 2 streams chunks with a 'completion' field
\* (it has no 'delta' frames)
FrameField(m) ==
    IF HasClaude3(m) THEN "delta_text"
    ELSE IF HasClaude(m) THEN "completion"
    ELSE IF HasTitan(m) THEN "outputText"
    ELSE IF HasLlama(m) THEN "generation"
    ELSE IF HasMistral(m) THEN "outputs"
    ELSE "other"

\* events of response['body']: the text deltas in the family's frame, and for
\* Claude 3 the events that carry no text (message_start before,
\* message_delta with a 'delta' without 'text' and message_stop after)
SimEvents(m, deltas) ==
    LET textFrames == [i \in 1..Len(deltas) |->
                          [chunk |-> TRUE, field |-> FrameField(m), text |-> deltas[i]]]
    IN IF HasClaude3(m)
       THEN <<[chunk |-> TRUE, field |-> "message_start", text |-> <<>>]>>
            \o textFrames
            \o <<[chunk |-> TRUE, field |-> "delta_stop", text |-> <<>>],
                 [chunk |-> TRUE, field |-> "message_stop", text |-> <<>>]>>
       ELSE textFrames

\* ---- decoding ----
\* slice size of the re-chunking of Titan / Llama / Mistral deltas
ChunkSize == 10

\* for char in text: yield char
Chars(text) == [i \in 1..Len(text) |-> <<text[i]>>]

RECURSIVE PiecesDropsTail(_, _)
\* re-chunking that cuts slices one character short
PiecesDropsTail(text, n) ==
    IF text = <<>> THEN <<>>
    ELSE <<SubSeq(text, 1, Min(n - 1, Len(text)))>>
         \o PiecesDropsTail(SubSeq(text, Min(n, Len(text)) + 1, Len(text)), n)

RECURSIVE Pieces(_, _)
\* for i in range(0, len(text), n): yield text[i:i+n]
Pieces(text, n) ==
    IF text = <<>> THEN <<>>
    ELSE <<SubSeq(text, 1, Min(n, Len(text)))>>
         \o Pieces(SubSeq(text, Min(n, Len(text)) + 1, Len(text)), n)

\* the fragments invoke_model_stream yields for one event
FrameFragments(m, ev, cs) ==
    IF ~ev.chunk THEN <<>>
    ELSE IF HasClaude(m)
         THEN IF ev.field = "delta_text"
              THEN (IF cs THEN Chars(ev.text) ELSE <<ev.text>>)
              ELSE <<>>
    ELSE IF HasTitan(m)
         THEN IF ev.field = "outputText"
              THEN (IF cs THEN Pieces(ev.text, ChunkSize) ELSE <<ev.text>>)
              ELSE <<>>
    ELSE IF HasLlama(m) \/ HasMistral(m)
         THEN IF ev.field \in {"generation", "outputs"}
              THEN (IF cs THEN Pieces(ev.text, ChunkSize) ELSE <<ev.text>>)
              ELSE <<>>
    ELSE <<>>

RECURSIVE EventsFragments(_, _, _)
EventsFragments(m, evs, cs) ==
    IF evs = <<>> THEN <<>>
    ELSE FrameFragments(m, Head(evs), cs) \o EventsFragments(m, Tail(evs), cs)

\* a stream whose diagnostic is emitted by the helper and again by its caller
InvokeModelStreamTwoDiagnostics(m, deltas, failAt, cs) ==
    LET evs == SimEvents(m, deltas)
    IN IF failAt = NoFail \/ failAt > Len(evs)
       THEN EventsFragments(m, evs, cs)
       ELSE EventsFragments(m, SubSeq(evs, 1, failAt), cs) \o <<ErrorText, ErrorText>>

\* everything invoke_model_stream yields: the fragments of the events
\* delivered before the endpoint raises, then the except clause's one
\* "Error: ..." fragment
InvokeModelStream(m, deltas, failAt, cs) ==
    LET evs == SimEvents(m, deltas)
    IN IF failAt = NoFail \/ failAt > Len(evs)
       THEN EventsFragments(m, evs, cs)
       ELSE EventsFragments(m, SubSeq(evs, 1, failAt), cs) \o <<ErrorText>>

\* everything chat_stream yields
ChatStream(m, deltas, failAt, cs) ==
    IF ~Supported(m) THEN <<NotSupportedText>>
    ELSE InvokeModelStream(m, deltas, failAt, cs)

\* the decode of chat_with_bedrock; KeyError when a subscripted field is
\* missing (the exception is not a ClientError and leaves the function)
DecodeBody(m, body) ==
    IF HasClaude(m)
    THEN IF HasClaude3(m)
         THEN (IF body.field = "content" THEN body.text ELSE KeyError)
         ELSE (IF body.field = "completion" THEN body.text ELSE NoResponseText)
    ELSE IF HasTitan(m)
         THEN (IF body.field = "results" THEN body.text ELSE KeyError)
    ELSE IF HasLlama(m) \/ HasMistral(m)
         THEN (IF body.field \in {"generation", "outputs"} THEN body.text
               ELSE NoResponseText)
    ELSE <<"str(response_body)">>

\* chat_with_bedrock: None for an unsupported model (no call) and for a
\* ClientError of the call
ChatWithBedrock(m, deltas, failAt) ==
    IF ~Supported(m) THEN None
    ELSE IF failAt # NoFail THEN None
    ELSE DecodeBody(m, SimBody(m, Concat(deltas)))

Flags == {TRUE, FALSE}

AdapterIdle ==
    /\ aModel = "cohere.command"
    /\ aEntry = "chat_stream"
    /\ aDeltas = <<>>
    /\ aFailAt = NoFail
    /\ aBlockPc = "done"
    /\ aBlockResult = None
    /\ aBlockCalls = 0
    /\ sPc = [cs \in Flags |-> "done"]
    /\ sPending = [cs \in Flags |-> <<>>]
    /\ sYielded = [cs \in Flags |-> <<>>]
    /\ sCalls = [cs \in Flags |-> 0]

AdapterInit ==
    /\ aModel \in ModelIds
    /\ aEntry \in {"chat_stream", "invoke_model_stream"}
    /\ aDeltas \in SeqsUpTo(DeltaTexts, MaxFrames)
    /\ aFailAt \in {NoFail} \cup (0..Len(aDeltas))
    /\ aBlockPc = "idle"
    /\ aBlockResult = None
    /\ aBlockCalls = 0
    /\ sPc = [cs \in Flags |-> "idle"]
    /\ sPending = [cs \in Flags |-> <<>>]
    /\ sYielded = [cs \in Flags |-> <<>>]
    /\ sCalls = [cs \in Flags |-> 0]

\* chat_with_bedrock(model_id, user_message, message_history)
CallChatWithBedrock ==
    /\ aBlockPc = "idle"
    /\ aBlockPc' = "done"
    /\ aBlockResult' = ChatWithBedrock(aModel, aDeltas, aFailAt)
    /\ aBlockCalls' = IF Supported(aModel) THEN aBlockCalls + 1 ELSE aBlockCalls
    /\ UNCHANGED <<aModel, aEntry, aDeltas, aFailAt, sPc, sPending, sYielded, sCalls>>
    /\ UNCHANGED notAdapter

\* the first next() on the generator: the body up to its first yield.
\* invoke_model_stream calls the endpoint for every model id; chat_stream
\* returns before the call for an unsupported one
OpenStream(cs) ==
    /\ sPc[cs] = "idle"
    /\ sPc' = [sPc EXCEPT ![cs] = "open"]
    /\ sPending' = [sPending EXCEPT ![cs] =
          IF aEntry = "chat_stream"
          THEN ChatStream(aModel, aDeltas, aFailAt, cs)
          ELSE InvokeModelStream(aModel, aDeltas, aFailAt, cs)]
    /\ sCalls' = [sCalls EXCEPT ![cs] =
          IF aEntry = "chat_stream" /\ ~Supported(aModel) THEN @ ELSE @ + 1]
    /\ UNCHANGED <<aModel, aEntry, aDeltas, aFailAt, aBlockPc, aBlockResult,
                   aBlockCalls, sYielded>>
    /\ UNCHANGED notAdapter

\* the consumer receives the next fragment
YieldFragment(cs) ==
    /\ sPc[cs] = "open"
    /\ sPending[cs] # <<>>
    /\ sYielded' = [sYielded EXCEPT ![cs] = Append(@, Head(sPending[cs]))]
    /\ sPending' = [sPending EXCEPT ![cs] = Tail(@)]
    /\ UNCHANGED <<aModel, aEntry, aDeltas, aFailAt, aBlockPc, aBlockResult,
                   aBlockCalls, sPc, sCalls>>
    /\ UNCHANGED notAdapter

\* the generator is exhausted: StopIteration
EndStream(cs) ==
    /\ sPc[cs] = "open"
    /\ sPending[cs] = <<>>
    /\ sPc' = [sPc EXCEPT ![cs] = "done"]
    /\ UNCHANGED <<aModel, aEntry, aDeltas, aFailAt, aBlockPc, aBlockResult,
                   aBlockCalls, sPending, sYielded, sCalls>>
    /\ UNCHANGED notAdapter

AdapterNext ==
    \/ CallChatWithBedrock
    \/ \E cs \in Flags : OpenStream(cs)
    \/ \E cs \in Flags : YieldFragment(cs)
    \/ \E cs \in Flags : EndStream(cs)

(***************************************************************************)
(* run_rag_ui: retry_bedrock_call(answer_with_context, ...)                *)
(***************************************************************************)
\* retries and delay of the call in run_rag_ui (the defaults), the delay in
\* tenths of a second
RagUiRetries == 3
RagUiDelay == 10

\* what one invoke_model call can do: return a well-formed body, raise a
\* ClientError that is a throttling signal, raise another ClientError,
\* return a body without the family's response field, raise an exception
\* that is not a ClientError (a connection error)
EndpointOutcomes == {"ok", "throttling", "client_error", "malformed", "connection"}

AnswerTexts == {<<>>, <<"o", "k">>}

\* the answer run_rag_ui substitutes for None
CouldNotGenerate == <<"c", "o", "u", "l", "d", "n", "'", "t">>

\* answer_with_context(model_id, ...) given the outcome of its invoke_model
\* call: the value it returns, or the exception that leaves it
AnswerWithContext(m, outcome, text) ==
    IF ~Supported(m) THEN [kind |-> "return", value |-> None]
    ELSE IF outcome \in {"throttling", "client_error"}
         THEN [kind |-> "return", value |-> None]
    ELSE IF outcome = "connection" THEN [kind |-> "raise", value |-> None]
    ELSE LET body == IF outcome = "ok" THEN SimBody(m, text)
                     ELSE [field |-> "other", text |-> text]
             reply == DecodeBody(m, body)
         IN IF reply = KeyError THEN [kind |-> "raise", value |-> KeyError]
            ELSE [kind |-> "return", value |-> reply]

\* message_history after one call of answer_with_context
HistoryAfterAnswer(m, history, result) ==
    IF HasClaude3(m)
    THEN IF result.kind = "return" /\ result.value # None
         THEN history \o <<"user", "assistant">>
         ELSE Append(history, "user")
    ELSE history

RagUiIdle ==
    /\ gModel = "cohere.command"
    /\ gCalls = <<>>
    /\ gHistory = <<>>
    /\ gAnswer = None

\* a question has been asked and its documents retrieved
RagUiInit ==
    /\ gModel \in ModelIds
    /\ gCalls = <<>>
    /\ gHistory = <<>>
    /\ gAnswer = None
    /\ rVariant = "rag_ui"
    /\ rRetries = RagUiRetries
    /\ rBase = RagUiDelay
    /\ rMax = 150
    /\ rAttempt = 1
    /\ rPc = "loop"
    /\ rLog = <<>>
    /\ rSleeps = <<>>
    /\ rReturned = None
    /\ rResult = None

\* one iteration of the loop of retry_bedrock_call: answer_with_context is
\* called; its return value is returned, its exception is slept on
RagUiAttempt(outcome, text) ==
    LET result == AnswerWithContext(gModel, outcome, text)
    IN /\ rPc = "loop"
       /\ gCalls' = IF Supported(gModel) THEN Append(gCalls, outcome) ELSE gCalls
       /\ gHistory' = HistoryAfterAnswer(gModel, gHistory, result)
       /\ IF result.kind = "return"
          THEN /\ rLog' = Append(rLog, "ok")
               /\ rReturned' = result.value
               /\ rResult' = result.value
               /\ rPc' = "returned"
               /\ UNCHANGED <<rAttempt, rSleeps>>
          ELSE /\ rLog' = Append(rLog, "error")
               /\ rSleeps' = Append(rSleeps,
                     [kind |-> "error", attempt |-> rAttempt,
                      time |-> RagUiSleep(rBase, rAttempt - 1)])
               /\ rAttempt' = rAttempt + 1
               /\ IF rAttempt = rRetries
                  THEN rPc' = "returned" /\ rResult' = RagUiSentinel
                  ELSE rPc' = "loop" /\ rResult' = rResult
               /\ UNCHANGED rReturned
       /\ UNCHANGED <<rVariant, rRetries, rBase, rMax, gModel, gAnswer>>
       /\ UNCHANGED notRagUi

\* if answer is None: answer = "... couldn't generate a response ..."
RagUiPrintAnswer ==
    /\ rPc = "returned"
    /\ rPc' = "done"
    /\ gAnswer' = IF rResult = None THEN CouldNotGenerate ELSE rResult
    /\ UNCHANGED <<rVariant, rRetries, rBase, rMax, rAttempt, rLog, rSleeps,
                   rReturned, rResult, gModel, gCalls, gHistory>>
    /\ UNCHANGED notRagUi

RagUiNext ==
    \/ \E outcome \in EndpointOutcomes, text \in AnswerTexts : RagUiAttempt(outcome, text)
    \/ RagUiPrintAnswer

(***************************************************************************)
(* PromptCache, ContextMemoryStore, VectorStoreManager                     *)
(***************************************************************************)
\* ---- texts ----
\* str.lower on the letters the questions use
UpperLetters == <<"A", "B", "C", "D", "E", "F", "G", "H", "I", "J", "K", "L", "M",
                  "N", "O", "P", "Q", "R", "S", "T", "U", "V", "W", "X", "Y", "Z">>
LowerLetters == <<"a", "b", "c", "d", "e", "f", "g", "h", "i", "j", "k", "l", "m",
                  "n", "o", "p", "q", "r", "s", "t", "u", "v", "w", "x", "y", "z">>

LowerChar(ch) ==
    IF \E i \in 1..26 : UpperLetters[i] = ch
    THEN LowerLetters[CHOOSE i \in 1..26 : UpperLetters[i] = ch]
    ELSE ch

Lower(text) == [i \in 1..Len(text) |-> LowerChar(text[i])]

RECURSIVE DropSpaces(_)
\* str.lstrip
DropSpaces(text) ==
    IF text # <<>> /\ IsSpace(Head(text)) THEN DropSpaces(Tail(text)) ELSE text

RECURSIVE FirstWordLen(_)
\* length of the leading run of non-whitespace characters
FirstWordLen(text) ==
    IF text = <<>> \/ IsSpace(Head(text)) THEN 0 ELSE 1 + FirstWordLen(Tail(text))

RECURSIVE Split(_)
\* str.split(): the maximal runs of non-whitespace characters
Split(text) ==
    LET t == DropSpaces(text)
        n == FirstWordLen(t)
    IN IF t = <<>> THEN <<>>
       ELSE <<SubSeq(t, 1, n)>> \o Split(SubSeq(t, n + 1, Len(t)))

RECURSIVE JoinLinesTrailing(_)
\* a join that ends every part, the last included, with a newline
JoinLinesTrailing(parts) ==
    IF parts = <<>> THEN <<"\n">>
    ELSE IF Len(parts) = 1 THEN Head(parts) \o <<"\n">>
    ELSE Head(parts) \o <<"\n">> \o JoinLinesTrailing(Tail(parts))

RECURSIVE JoinLines(_)
\* "\n".join(parts)
JoinLines(parts) ==
    IF parts = <<>> THEN <<>>
    ELSE IF Len(parts) = 1 THEN Head(parts)
    ELSE Head(parts) \o <<"\n">> \o JoinLines(Tail(parts))

\* word in text
Contains(text, word) ==
    \E i \in 1..(Len(text) - Len(word) + 1) :
        SubSeq(text, i, i + Len(word) - 1) = word

\* ---- PromptCache ----
RECURSIVE StripTail(_)
\* str.rstrip
StripTail(text) ==
    IF text # <<>> /\ IsSpace(text[Len(text)])
    THEN StripTail(SubSeq(text, 1, Len(text) - 1)) ELSE text

\* normalisation of a question or context before hashing: surrounding
\* whitespace is dropped
NormalizeText(text) == StripTail(DropSpaces(text))

\* the cache key: a deterministic hash of the normalised pair; the hash is
\* taken to be collision-free, so the pair stands for it
CacheKey(question, context) == <<NormalizeText(question), NormalizeText(context)>>

\* the context get_cached_response uses when it is called with the
\* question alone
NoContext == <<>>

\* what get_cached_response returns on a miss (None)
NoEntry == [found |-> FALSE]

\* PromptCache.get_cached_response(query, context): the entry or None
GetCachedResponse(cache, question, context) ==
    IF CacheKey(question, context) \in DOMAIN cache
    THEN cache[CacheKey(question, context)]
    ELSE NoEntry

\* a put that keeps the entry already stored under the key
CacheResponseKeepsOld(cache, question, context, response, modelId, tokens) ==
    [k \in DOMAIN cache \cup {CacheKey(question, context)} |->
        IF k \in DOMAIN cache THEN cache[k]
        ELSE [response |-> response, model_id |-> modelId, tokens_saved |-> tokens]]

\* PromptCache.cache_response(query, context, response, model_id,
\* tokens_saved): insert or overwrite
CacheResponse(cache, question, context, response, modelId, tokens) ==
    [k \in DOMAIN cache \cup {CacheKey(question, context)} |->
        IF k = CacheKey(question, context)
        THEN [response |-> response, model_id |-> modelId, tokens_saved |-> tokens]
        ELSE cache[k]]

\* PromptCache.cache_context_chunk(content, metadata): keyed by the content
CacheContextChunk(chunks, content, meta) ==
    [k \in DOMAIN chunks \cup {content} |-> IF k = content THEN meta ELSE chunks[k]]

EmptyCache == [k \in {} |-> NoEntry]

\* ---- PromptCache called directly ----
\* largest number of direct PromptCache calls in one behaviour
MaxCacheOps == 3

\* questions, contexts and responses of the direct calls; two of the
\* questions differ only in trailing whitespace
CacheQuestions == {<<"q">>, <<"q", " ">>, <<"p">>}
CacheContexts == {<<>>, <<"c">>}
CacheResponses == {<<>>, <<"a">>, <<"a", " ", "\n", "b">>}

CacheIdle == cOps = <<>>

\* prompt_cache.cache_response(question, context, response, model_id,
\* tokens_saved=...)
CachePut(question, context, response) ==
    /\ Len(cOps) < MaxCacheOps
    /\ respCache' = CacheResponse(respCache, question, context, response,
                                  "anthropic.claude-3-sonnet",
                                  Len(Split(context)) \div 4)
    /\ cOps' = Append(cOps, [op |-> "put", question |-> question, context |-> context,
                             response |-> response])
    /\ UNCHANGED chunkCache
    /\ UNCHANGED notCache

\* cached = prompt_cache.get_cached_response(question, context)
CacheGet(question, context) ==
    /\ Len(cOps) < MaxCacheOps
    /\ cOps' = Append(cOps, [op |-> "get", question |-> question, context |-> context,
                             result |-> GetCachedResponse(respCache, question, context)])
    /\ UNCHANGED <<respCache, chunkCache>>
    /\ UNCHANGED notCache

\* prompt_cache.clear_cache()
CacheClear ==
    /\ Len(cOps) < MaxCacheOps
    /\ respCache' = EmptyCache
    /\ chunkCache' = EmptyCache
    /\ cOps' = Append(cOps, [op |-> "clear"])
    /\ UNCHANGED notCache

CacheNext ==
    \/ \E q \in CacheQuestions, c \in CacheContexts, r \in CacheResponses : CachePut(q, c, r)
    \/ \E q \in CacheQuestions, c \in CacheContexts : CacheGet(q, c)
    \/ CacheClear

\* ---- ContextMemoryStore ----
\* limit of retrieve_similar_contexts at its call sites
MemoryLimit == 3

\* ContextMemoryStore.store_context: append a record
StoreContext(mem, query, context, response, metadata, tags, confidence, modelId) ==
    Append(mem, [query |-> query, context |-> context, response |-> response,
                 metadata |-> metadata, tags |-> tags,
                 confidence_score |-> confidence, model_id |-> modelId])

\* the lists retrieve_similar_contexts(query, limit) can return: stored
\* records, none twice, at most limit of them; which records count as
\* similar and in which order is left open
SimilarContexts(mem, limit) ==
    {[i \in 1..Len(idx) |-> mem[idx[i]]] :
        idx \in {q \in SeqsUpTo(DOMAIN mem, Min(limit, Len(mem))) :
                    \A i, j \in 1..Len(q) : i # j => q[i] # q[j]}}

\* ---- VectorStoreManager ----
\* top_k of the orchestrator's semantic_search calls
TopK == 3

RECURSIVE InsertByScore(_, _)
\* place r after every element whose score is at least r's (stable order)
InsertByScore(sorted, r) ==
    IF sorted = <<>> THEN <<r>>
    ELSE IF Head(sorted).score >= r.score
         THEN <<Head(sorted)>> \o InsertByScore(Tail(sorted), r)
         ELSE <<r>> \o sorted

RECURSIVE SortByScore(_)
\* sort(key=score, reverse=True)
SortByScore(rs) ==
    IF rs = <<>> THEN <<>>
    ELSE InsertByScore(SortByScore(SubSeq(rs, 1, Len(rs) - 1)), rs[Len(rs)])

\* semantic_search(query, embed_model_id, top_k): (filename, score, content)
\* of the best top_k documents, best first
SemanticSearch(store, topK) ==
    LET sorted == SortByScore(store)
    IN SubSeq(sorted, 1, Min(topK, Len(sorted)))

Doc(n, sc, text) == [filename |-> n, score |-> sc, content |-> text]

\* knowledge bases explored: empty, and more than top_k documents
KnowledgeBases ==
    {<<>>,
     <<Doc("f1]", 40, <<"w", " ", "x">>), Doc("f2]", 90, <<"y">>),
       Doc("f3]", 70, <<"z">>), Doc("f4]", 10, <<"v">>)>>}

(***************************************************************************)
(* Orchestrator: OptimizedRAG                                              *)
(***************************************************************************)
\* largest number of requests in one behaviour
MaxRequests == 2

\* questions explored: one that matches keyword sets, one that matches none
Questions == {<<"H", "o", "w", " ", "f", "i", "x">>, <<"q">>}

\* the simulated provider's replies, as deltas: a text with a space before
\* a newline and no trailing space, and the empty reply
Replies == {<< <<"a", " ">>, <<"\n", "b">> >>, <<>>}

\* the chat models selected in a session: Claude 3, older Claude, Titan and
\* one id no branch matches; the Llama/Mistral branch of
\* _invoke_model_with_context decodes with a default like the older-Claude
\* branch and streams in pieces like the Titan branch
SessionModels == ModelIds \ {"mistral.mistral-7b", "meta.llama3"}

\* the caller's message_history when the request starts
HistoryArgs == {<<[role |-> "user", content |-> <<"e", "a", "r", "l", "i", "e", "r">>]>>}

\* the categories of _extract_tags, in the order of the keywords dict
Categories == <<"implementation", "explanation", "troubleshooting", "design">>

Keywords(c) ==
    IF c = "implementation" THEN {<<"h", "o", "w">>,
          <<"b", "u", "i", "l", "d">>,
          <<"c", "r", "e", "a", "t", "e">>,
          <<"d", "e", "v", "e", "l", "o", "p">>}
    ELSE IF c = "explanation" THEN {<<"w", "h", "a", "t">>,
          <<"e", "x", "p", "l", "a", "i", "n">>,
          <<"d", "e", "s", "c", "r", "i", "b", "e">>,
          <<"w", "h", "y">>}
    ELSE IF c = "troubleshooting" THEN {<<"e", "r", "r", "o", "r">>,
          <<"b", "u", "g">>,
          <<"f", "i", "x">>,
          <<"i", "s", "s", "u", "e">>,
          <<"p", "r", "o", "b", "l", "e", "m">>}
    ELSE {<<"a", "r", "c", "h", "i", "t", "e", "c", "t", "u", "r", "e">>,
          <<"d", "e", "s", "i", "g", "n">>,
          <<"p", "a", "t", "t", "e", "r", "n">>,
          <<"s", "t", "r", "u", "c", "t", "u", "r", "e">>}

\* number of tags kept by tags[:3]
MaxTags == 3

RECURSIVE MatchingCategories(_, _)
MatchingCategories(cats, questionLower) ==
    IF cats = <<>> THEN <<>>
    ELSE (IF \E w \in Keywords(Head(cats)) : Contains(questionLower, w)
          THEN <<Head(cats)>> ELSE <<>>)
         \o MatchingCategories(Tail(cats), questionLower)

\* a version that returns every matching category
ExtractTagsNoLimit(question) == MatchingCategories(Categories, Lower(question))

\* OptimizedRAG._extract_tags
ExtractTags(question) ==
    LET tags == MatchingCategories(Categories, Lower(question))
    IN SubSeq(tags, 1, Min(MaxTags, Len(tags)))

\* ---- _extract_tags called on its own ----
\* largest number of words in a question
MaxWords == 4

\* words the questions are made of: keywords of each category in several
\* cases, a word that only contains a keyword, a word that matches nothing
TagWords == {<<"H", "o", "w">>, <<"w", "h", "a", "t">>, <<"F", "I", "X">>,
             <<"d", "e", "s", "i", "g", "n">>, <<"s", "h", "o", "w">>,
             <<"z", "z">>}

RECURSIVE JoinWords(_)
JoinWords(words) ==
    IF words = <<>> THEN <<>>
    ELSE IF Len(words) = 1 THEN Head(words)
    ELSE Head(words) \o <<" ">> \o JoinWords(Tail(words))

FixThisError == <<"H", "o", "w", " ", "d", "o", " ", "I", " ", "f", "i", "x", " ",
                  "t", "h", "i", "s", " ", "e", "r", "r", "o", "r", "?">>

TagQuestions == {JoinWords(ws) : ws \in SeqsUpTo(TagWords, MaxWords)} \cup {FixThisError}

TagsIdle ==
    /\ tQuestion = <<>>
    /\ tTags = <<>>
    /\ tPc = "done"

TagsInit ==
    /\ tQuestion \in TagQuestions
    /\ tTags = <<>>
    /\ tPc = "idle"

\* tags = self._extract_tags(user_question)
CallExtractTags ==
    /\ tPc = "idle"
    /\ tTags' = ExtractTags(tQuestion)
    /\ tPc' = "done"
    /\ UNCHANGED tQuestion
    /\ UNCHANGED notTags

\* confidence scores, in hundredths
ConfidenceWithDocs == 85
ConfidenceWithoutDocs == 50

\* f"{confidence_score:.2%}]"
PercentText(conf) == IF conf = ConfidenceWithDocs THEN "85.00%]" ELSE "50.00%]"

\* f"[Memory - Confidence: {past_ctx.confidence_score:.2%}]"
MemoryLabel(conf) == <<"[Memory", " ", "-", " ", "Confidence:", " ", PercentText(conf)>>

\* f"[Document: {filename}]"
DocLabel(filename) == <<"[Document:", " ", filename>>

RECURSIVE MemoryParts(_)
MemoryParts(past) ==
    IF past = <<>> THEN <<>>
    ELSE <<MemoryLabel(Head(past).confidence_score), Head(past).response, <<>>>>
         \o MemoryParts(Tail(past))

RECURSIVE DocParts(_)
DocParts(results) ==
    IF results = <<>> THEN <<>>
    ELSE <<DocLabel(Head(results).filename), Head(results).content, <<>>>>
         \o DocParts(Tail(results))

\* a context that lists the documents first
BuildContextTextDocsFirst(past, results) ==
    JoinLines(DocParts(results) \o MemoryParts(past))

\* combined_context = "\n".join(context_parts)
BuildContextText(past, results) == JoinLines(MemoryParts(past) \o DocParts(results))

\* word count of the context divided by this is the token estimate
WordsPerToken == 4

\* an estimate from the number of characters instead of the number of words
EstimatedTokensSavedByChars(context) == Len(context) \div WordsPerToken

\* len(combined_context.split()) // 4
EstimatedTokensSaved(context) == Len(Split(context)) \div WordsPerToken

\* a loop that caches the best chunk only
CacheChunksOfBestOnly(chunks, results) ==
    IF results = <<>> THEN chunks
    ELSE CacheContextChunk(chunks, Head(results).content,
            [source |-> Head(results).filename, score |-> Head(results).score])

RECURSIVE CacheChunksOf(_, _)
\* for filename, score, content in retrieved_results: cache_context_chunk
CacheChunksOf(chunks, results) ==
    IF results = <<>> THEN chunks
    ELSE CacheChunksOf(
            CacheContextChunk(chunks, Head(results).content,
                [source |-> Head(results).filename, score |-> Head(results).score]),
            Tail(results))

\* the user turn built for a Claude 3 model
PromptMessage(context, question) ==
    [role |-> "user",
     content |-> <<"Context:", "\n">> \o context
                 \o <<"\n", "\n", "Question:", "\n">> \o question]

OrchNotSupportedText == <<"N", "o", "t", " ", "s", "u", "p", "p", "o", "r", "t", "e", "d", ".">>

\* what _invoke_model_with_context returns: the decoded text, None after a
\* ClientError or for an unsupported model, KeyError when the response
\* lacks a subscripted field (the exception leaves the function)
InvokeModelWithContext(m, outcome, deltas) ==
    IF ~Supported(m) THEN None
    ELSE IF outcome = "client_error" THEN None
    ELSE IF outcome = "malformed" THEN DecodeBody(m, [field |-> "other", text |-> <<>>])
    ELSE DecodeBody(m, SimBody(m, Concat(deltas)))

\* everything _invoke_model_with_context_stream yields
InvokeModelWithContextStream(m, deltas, failAt) ==
    IF ~Supported(m) THEN <<OrchNotSupportedText>>
    ELSE InvokeModelStream(m, deltas, failAt, TRUE)

\* no value returned (yet) by answer_with_optimization
NoResult == [kind |-> "none"]

NewStats(mode) ==
    [cache_hit |-> FALSE, memory_reused |-> FALSE, contexts_retrieved |-> 0,
     tokens_saved |-> 0, optimization_source |-> <<>>, streaming |-> (mode = "stream")]

\* clear_all_caches has run and no request has written to the response
\* cache or to the memory since
ClearedSince ==
    \/ oPc = "Cleared"
    \/ /\ oStart.cleared
       /\ \A i \in 1..Len(oTrace) : oTrace[i] \notin {"resp_put", "mem_put"}

Stores == [respCache |-> respCache, chunkCache |-> chunkCache, memory |-> memory,
           cleared |-> ClearedSince]

OrchIdle ==
    /\ respCache = EmptyCache
    /\ chunkCache = EmptyCache
    /\ memory = <<>>
    /\ vstore = <<>>
    /\ oModel = "cohere.command"
    /\ oMode = "blocking"
    /\ oQuestion = <<>>
    /\ oUseCache = FALSE
    /\ oStoreMemory = FALSE
    /\ oRetrievePast = FALSE
    /\ oHistory = <<>>
    /\ oPc = "idle"
    /\ oStats = NewStats("blocking")
    /\ oPast = <<>>
    /\ oResults = <<>>
    /\ oContext = <<>>
    /\ oGenContext = None
    /\ oFull = <<>>
    /\ oPending = <<>>
    /\ oYielded = <<>>
    /\ oResult = NoResult
    /\ oTrace = <<>>
    /\ oStart = [respCache |-> EmptyCache, chunkCache |-> EmptyCache, memory |-> <<>>,
                 cleared |-> FALSE]
    /\ oRequests = 0

\* OptimizedRAG(): empty caches and memory; the knowledge base, the
\* selected chat model and the two memory flags are those of the session
OrchInit ==
    /\ respCache = EmptyCache
    /\ chunkCache = EmptyCache
    /\ memory = <<>>
    /\ vstore \in KnowledgeBases
    /\ oModel \in SessionModels
    /\ oMode = "blocking"
    /\ oQuestion = <<>>
    /\ oUseCache = FALSE
    /\ oStoreMemory \in BOOLEAN
    /\ oRetrievePast \in BOOLEAN
    /\ oHistory = <<>>
    /\ oPc = "idle"
    /\ oStats = NewStats("blocking")
    /\ oPast = <<>>
    /\ oResults = <<>>
    /\ oContext = <<>>
    /\ oGenContext = None
    /\ oFull = <<>>
    /\ oPending = <<>>
    /\ oYielded = <<>>
    /\ oResult = NoResult
    /\ oTrace = <<>>
    /\ oStart = [respCache |-> EmptyCache, chunkCache |-> EmptyCache, memory |-> <<>>,
                 cleared |-> FALSE]
    /\ oRequests = 0

\* a call of answer_with_optimization / answer_with_optimization_stream:
\* the stats dict is created
StartRequest(mode, question, useCache, history) ==
    /\ oPc \in {"idle", "Done", "Raised", "Cleared", "Abandoned"}
    /\ oRequests < MaxRequests
    /\ oRequests' = oRequests + 1
    /\ oMode' = mode
    /\ oQuestion' = question
    /\ oUseCache' = useCache
    /\ oHistory' = history
    /\ oPc' = "CheckCache"
    /\ oStats' = NewStats(mode)
    /\ oPast' = <<>>
    /\ oResults' = <<>>
    /\ oContext' = <<>>
    /\ oGenContext' = None
    /\ oFull' = <<>>
    /\ oPending' = <<>>
    /\ oYielded' = <<>>
    /\ oResult' = NoResult
    /\ oTrace' = <<>>
    /\ oStart' = Stores
    /\ UNCHANGED <<oModel, oStoreMemory, oRetrievePast, storeVars>>
    /\ UNCHANGED notOrch

\* use_cache is off: the lookup is skipped
CheckCacheSkipped ==
    /\ oPc = "CheckCache"
    /\ ~oUseCache
    /\ oPc' = "RetrieveMemory"
    /\ UNCHANGED <<oModel, oMode, oQuestion, oUseCache, oStoreMemory, oRetrievePast, oGenContext,
                   oHistory, oStats, oPast, oResults, oContext, oFull, oPending,
                   oYielded, oResult, oTrace, oStart, oRequests, storeVars>>
    /\ UNCHANGED notOrch

\* get_cached_response(user_question) finds nothing
CheckCacheMiss ==
    /\ oPc = "CheckCache"
    /\ oUseCache
    /\ GetCachedResponse(respCache, oQuestion, NoContext) = NoEntry
    /\ oTrace' = Append(oTrace, "cache_get")
    /\ oPc' = "RetrieveMemory"
    /\ UNCHANGED <<oModel, oMode, oQuestion, oUseCache, oStoreMemory, oRetrievePast, oGenContext,
                   oHistory, oStats, oPast, oResults, oContext, oFull, oPending,
                   oYielded, oResult, oStart, oRequests, storeVars>>
    /\ UNCHANGED notOrch

\* a hit that goes on to the retrieval steps
CheckCacheHitFallsThrough ==
    /\ oPc = "CheckCache"
    /\ oUseCache
    /\ GetCachedResponse(respCache, oQuestion, NoContext) # NoEntry
    /\ oTrace' = Append(oTrace, "cache_get")
    /\ oStats' = [oStats EXCEPT !.cache_hit = TRUE,
                     !.optimization_source = Append(@, "prompt_cache")]
    /\ oPc' = "RetrieveMemory"
    /\ UNCHANGED <<oModel, oMode, oQuestion, oUseCache, oStoreMemory, oRetrievePast, oGenContext,
                   oHistory, oPast, oResults, oContext, oFull, oPending,
                   oYielded, oResult, oStart, oRequests, storeVars>>
    /\ UNCHANGED notOrch

\* get_cached_response(user_question) finds an entry: the blocking call
\* returns it, the generator goes on to yield its words
CheckCacheHit ==
    /\ oPc = "CheckCache"
    /\ oUseCache
    /\ GetCachedResponse(respCache, oQuestion, NoContext) # NoEntry
    /\ LET cached == GetCachedResponse(respCache, oQuestion, NoContext)
           stats == [oStats EXCEPT !.cache_hit = TRUE,
                        !.tokens_saved = cached.tokens_saved,
                        !.optimization_source = Append(@, "prompt_cache")]
       IN /\ oStats' = stats
          /\ IF oMode = "blocking"
             THEN /\ oResult' = [response |-> cached.response, stats |-> stats,
                                 kind |-> "from_cache"]
                  /\ oPending' = oPending
                  /\ oTrace' = oTrace \o <<"cache_get", "done">>
                  /\ oPc' = "Done"
             ELSE /\ oResult' = oResult
                  /\ oPending' = [i \in 1..Len(Split(cached.response)) |->
                                     Split(cached.response)[i] \o <<" ">>]
                  /\ oTrace' = Append(oTrace, "cache_get")
                  /\ oPc' = "HitYield"
    /\ UNCHANGED <<oModel, oMode, oQuestion, oUseCache, oStoreMemory, oRetrievePast, oGenContext,
                   oHistory, oPast, oResults, oContext, oFull, oYielded, oStart,
                   oRequests, storeVars>>
    /\ UNCHANGED notOrch

\* stats.copy(): a shallow copy, the scalar fields are copied and the
\* optimization_source list is shared with the live stats dict
ScalarsOf(stats) ==
    [cache_hit |-> stats.cache_hit, memory_reused |-> stats.memory_reused,
     contexts_retrieved |-> stats.contexts_retrieved,
     tokens_saved |-> stats.tokens_saved, streaming |-> stats.streaming]

\* yield token + " ", stats.copy()
HitYield ==
    /\ oPc = "HitYield"
    /\ oPending # <<>>
    /\ oYielded' = Append(oYielded, [token |-> Head(oPending), stats |-> ScalarsOf(oStats)])
    /\ oPending' = Tail(oPending)
    /\ UNCHANGED <<oModel, oMode, oQuestion, oUseCache, oStoreMemory, oRetrievePast, oGenContext,
                   oHistory, oPc, oStats, oPast, oResults, oContext, oFull,
                   oResult, oTrace, oStart, oRequests, storeVars>>
    /\ UNCHANGED notOrch

\* the loop over the cached words is over: return
HitEnd ==
    /\ oPc = "HitYield"
    /\ oPending = <<>>
    /\ oPc' = "Done"
    /\ oTrace' = Append(oTrace, "done")
    /\ UNCHANGED <<oModel, oMode, oQuestion, oUseCache, oStoreMemory, oRetrievePast, oGenContext,
                   oHistory, oStats, oPast, oResults, oContext, oFull, oPending,
                   oYielded, oResult, oStart, oRequests, storeVars>>
    /\ UNCHANGED notOrch

\* retrieve_past_contexts: retrieve_similar_contexts(user_question, limit=3)
RetrieveMemory ==
    /\ oPc = "RetrieveMemory"
    /\ \E past \in SimilarContexts(memory, MemoryLimit) :
          /\ IF oRetrievePast
             THEN oTrace' = Append(oTrace, "mem_get")
             ELSE past = <<>> /\ oTrace' = oTrace
          /\ oPast' = past
          /\ oStats' = IF past # <<>>
                       THEN [oStats EXCEPT !.memory_reused = TRUE,
                                !.optimization_source = Append(@, "context_memory")]
                       ELSE oStats
    /\ oPc' = "RetrieveDocuments"
    /\ UNCHANGED <<oModel, oMode, oQuestion, oUseCache, oStoreMemory, oRetrievePast, oGenContext,
                   oHistory, oResults, oContext, oFull, oPending, oYielded,
                   oResult, oStart, oRequests, storeVars>>
    /\ UNCHANGED notOrch

\* semantic_search(user_question, embed_model_id, top_k=3)
RetrieveDocuments ==
    /\ oPc = "RetrieveDocuments"
    /\ oResults' = SemanticSearch(vstore, TopK)
    /\ oStats' = [oStats EXCEPT !.contexts_retrieved = Len(SemanticSearch(vstore, TopK))]
    /\ oTrace' = Append(oTrace, "search")
    /\ oPc' = "BuildContext"
    /\ UNCHANGED <<oModel, oMode, oQuestion, oUseCache, oStoreMemory, oRetrievePast, oGenContext,
                   oHistory, oPast, oContext, oFull, oPending, oYielded,
                   oResult, oStart, oRequests, storeVars>>
    /\ UNCHANGED notOrch

\* context_parts and combined_context, then the chunk-cache loop
BuildContext ==
    /\ oPc = "BuildContext"
    /\ oContext' = BuildContextText(oPast, oResults)
    /\ chunkCache' = CacheChunksOf(chunkCache, oResults)
    /\ oTrace' = oTrace \o <<"build">> \o [i \in 1..Len(oResults) |-> "chunk_put"]
    /\ oPc' = "Generate"
    /\ UNCHANGED <<oModel, oMode, oQuestion, oUseCache, oStoreMemory, oRetrievePast, oGenContext,
                   oHistory, oStats, oPast, oResults, oFull, oPending, oYielded,
                   oResult, oStart, oRequests, respCache, memory, vstore>>
    /\ UNCHANGED notOrch

ErrorGeneratingText == <<"E", "r", "r", "o", "r", " ", "g", "e", "n">>

\* the message_history list after _invoke_model_with_context: a Claude 3
\* request appends the user turn to the caller's list before the call and
\* the reply after a decoded response
HistoryAfterBlocking(history, m, context, question, value) ==
    IF HasClaude(m) /\ HasClaude3(m)
    THEN IF value \notin {None, KeyError}
         THEN history \o <<PromptMessage(context, question),
                           [role |-> "assistant", content |-> value]>>
         ELSE Append(history, PromptMessage(context, question))
    ELSE history

\* the Generate step of answer_with_optimization:
\* _invoke_model_with_context, then the 'response is None' early return
GenerateBlocking(outcome, deltas) ==
    /\ oPc = "Generate"
    /\ oMode = "blocking"
    /\ LET value == InvokeModelWithContext(oModel, outcome, deltas)
           calls == <<"generate">> \o (IF Supported(oModel) THEN <<"endpoint">> ELSE <<>>)
       IN /\ oHistory' = HistoryAfterBlocking(oHistory, oModel, oContext, oQuestion, value)
          /\ IF value = KeyError
             THEN /\ oPc' = "Raised"
                  /\ oTrace' = oTrace \o calls \o <<"raised">>
                  /\ UNCHANGED <<oFull, oResult>>
             ELSE IF value = None
             THEN /\ oPc' = "Done"
                  /\ oTrace' = oTrace \o calls \o <<"done">>
                  /\ oResult' = [response |-> ErrorGeneratingText, stats |-> oStats,
                                 kind |-> "error"]
                  /\ UNCHANGED oFull
             ELSE /\ oPc' = "WriteBack"
                  /\ oTrace' = oTrace \o calls \o <<"generated">>
                  /\ oFull' = value
                  /\ UNCHANGED oResult
    /\ oGenContext' = oContext
    /\ UNCHANGED <<oModel, oMode, oQuestion, oUseCache, oStoreMemory, oRetrievePast,
                   oStats, oPast, oResults, oContext, oPending, oYielded,
                   oStart, oRequests, storeVars>>
    /\ UNCHANGED notOrch

\* a score that ignores whether documents were retrieved
ConfidenceScoreAlwaysHigh(results) == ConfidenceWithDocs

\* confidence_score = 0.85 if len(retrieved_results) > 0 else 0.5
ConfidenceScore(results) ==
    IF Len(results) > 0 THEN ConfidenceWithDocs ELSE ConfidenceWithoutDocs

\* the response cache after the write-back of the request
WriteBackCache(response) ==
    IF oUseCache
    THEN CacheResponse(respCache, oQuestion, oContext, response, oModel,
                       EstimatedTokensSaved(oContext))
    ELSE respCache

\* a write-back that stores the record whatever store_memory says
WriteBackMemoryAlways(response) ==
    StoreContext(memory, oQuestion, oContext, response,
        [source |-> IF oMode = "stream" THEN "optimized_rag_stream"
                    ELSE "optimized_rag",
         retrieved_docs |-> Len(oResults),
         past_contexts_used |-> Len(oPast)],
        ExtractTags(oQuestion), ConfidenceScore(oResults), oModel)

\* the memory store after the write-back of the request
WriteBackMemory(response) ==
    IF oStoreMemory
    THEN StoreContext(memory, oQuestion, oContext, response,
             [source |-> IF oMode = "stream" THEN "optimized_rag_stream"
                         ELSE "optimized_rag",
              retrieved_docs |-> Len(oResults),
              past_contexts_used |-> Len(oPast)],
             ExtractTags(oQuestion), ConfidenceScore(oResults), oModel)
    ELSE memory

\* a write-back that tags the memory store before the cache
WriteBackStatsMemoryFirst ==
    LET stored == IF oStoreMemory
                  THEN [oStats EXCEPT !.optimization_source = Append(@, "memory_stored")]
                  ELSE oStats
    IN IF oUseCache
       THEN [stored EXCEPT !.tokens_saved = EstimatedTokensSaved(oContext),
                !.optimization_source = Append(@, "newly_cached")]
       ELSE stored

\* a write-back that builds its stats afresh
WriteBackStatsStartsAfresh ==
    [NewStats(oMode) EXCEPT !.tokens_saved = EstimatedTokensSaved(oContext),
        !.optimization_source = <<"newly_cached">>]

\* the stats dict after the write-back of the request
WriteBackStats ==
    LET cached == IF oUseCache
                  THEN [oStats EXCEPT !.tokens_saved = EstimatedTokensSaved(oContext),
                           !.optimization_source = Append(@, "newly_cached")]
                  ELSE oStats
    IN IF oStoreMemory
       THEN [cached EXCEPT !.optimization_source = Append(@, "memory_stored")]
       ELSE cached

WriteBackTrace ==
    (IF oUseCache THEN <<"resp_put">> ELSE <<>>)
    \o (IF oStoreMemory THEN <<"mem_put">> ELSE <<>>)
    \o <<"done">>

\* the WriteBack step of answer_with_optimization and its return
WriteBackBlocking ==
    /\ oPc = "WriteBack"
    /\ respCache' = WriteBackCache(oFull)
    /\ memory' = WriteBackMemory(oFull)
    /\ oStats' = WriteBackStats
    /\ oResult' = [response |-> oFull, stats |-> WriteBackStats, kind |-> "generated"]
    /\ oTrace' = oTrace \o WriteBackTrace
    /\ oPc' = "Done"
    /\ UNCHANGED <<oModel, oMode, oQuestion, oUseCache, oStoreMemory, oRetrievePast, oGenContext,
                   oHistory, oPast, oResults, oContext, oFull, oPending, oYielded,
                   oStart, oRequests, chunkCache, vstore>>
    /\ UNCHANGED notOrch

\* the Generate step of answer_with_optimization_stream up to the first
\* fragment: _invoke_model_with_context_stream opens the stream
GenerateStream(deltas, failAt) ==
    /\ oPc = "Generate"
    /\ oMode = "stream"
    /\ oPending' = InvokeModelWithContextStream(oModel, deltas, failAt)
    /\ oTrace' = oTrace \o <<"generate">>
                 \o (IF Supported(oModel) THEN <<"endpoint">> ELSE <<>>)
    /\ oPc' = "Streaming"
    /\ oGenContext' = oContext
    /\ UNCHANGED <<oModel, oMode, oQuestion, oUseCache, oStoreMemory, oRetrievePast,
                   oHistory, oStats, oPast, oResults, oContext, oFull, oYielded,
                   oResult, oStart, oRequests, storeVars>>
    /\ UNCHANGED notOrch

\* a yield that already stores the partial response in the cache
StreamYieldCachesEarly ==
    /\ oPc = "Streaming"
    /\ oPending # <<>>
    /\ oFull' = oFull \o Head(oPending)
    /\ oYielded' = Append(oYielded, [token |-> Head(oPending), stats |-> ScalarsOf(oStats)])
    /\ oPending' = Tail(oPending)
    /\ respCache' = CacheResponse(respCache, oQuestion, oContext, oFull \o Head(oPending),
                                  oModel, EstimatedTokensSaved(oContext))
    /\ UNCHANGED <<oModel, oMode, oQuestion, oUseCache, oStoreMemory, oRetrievePast,
                   oGenContext, oHistory, oPc, oStats, oPast, oResults, oContext,
                   oResult, oTrace, oStart, oRequests, chunkCache, memory, vstore>>
    /\ UNCHANGED notOrch

\* full_response += token; yield token, stats.copy()
StreamYield ==
    /\ oPc = "Streaming"
    /\ oPending # <<>>
    /\ oFull' = oFull \o Head(oPending)
    /\ oYielded' = Append(oYielded, [token |-> Head(oPending), stats |-> ScalarsOf(oStats)])
    /\ oPending' = Tail(oPending)
    /\ UNCHANGED <<oModel, oMode, oQuestion, oUseCache, oStoreMemory, oRetrievePast, oGenContext,
                   oHistory, oPc, oStats, oPast, oResults, oContext, oResult,
                   oTrace, oStart, oRequests, storeVars>>
    /\ UNCHANGED notOrch

\* the consumer asks for the item after the last fragment: the loop ends,
\* the write-back runs and the generator returns
StreamFinish ==
    /\ oPc = "Streaming"
    /\ oPending = <<>>
    /\ respCache' = WriteBackCache(oFull)
    /\ memory' = WriteBackMemory(oFull)
    /\ oStats' = WriteBackStats
    /\ oTrace' = oTrace \o <<"generated">> \o WriteBackTrace
    /\ oPc' = "Done"
    /\ UNCHANGED <<oModel, oMode, oQuestion, oUseCache, oStoreMemory, oRetrievePast, oGenContext,
                   oHistory, oPast, oResults, oContext, oFull, oPending, oYielded,
                   oResult, oStart, oRequests, chunkCache, vstore>>
    /\ UNCHANGED notOrch

\* a generator whose close runs the write-back on what was delivered so far
AbandonStreamWritesBack ==
    /\ oMode = "stream"
    /\ oPc \in {"HitYield", "Streaming"}
    /\ oYielded # <<>>
    /\ respCache' = WriteBackCache(oFull)
    /\ memory' = WriteBackMemory(oFull)
    /\ oPc' = "Abandoned"
    /\ oTrace' = Append(oTrace, "closed")
    /\ UNCHANGED <<oModel, oMode, oQuestion, oUseCache, oStoreMemory, oRetrievePast,
                   oGenContext, oHistory, oStats, oPast, oResults, oContext, oFull,
                   oPending, oYielded, oResult, oStart, oRequests, chunkCache, vstore>>
    /\ UNCHANGED notOrch

\* the consumer stops pulling after a delivered fragment: the generator is
\* suspended at 'yield token, stats.copy()' and is closed there; no
\* try/finally surrounds the yield, so nothing after it runs
AbandonStream ==
    /\ oMode = "stream"
    /\ oPc \in {"HitYield", "Streaming"}
    /\ oYielded # <<>>
    /\ oPc' = "Abandoned"
    /\ oTrace' = Append(oTrace, "closed")
    /\ UNCHANGED <<oModel, oMode, oQuestion, oUseCache, oStoreMemory, oRetrievePast,
                   oGenContext, oHistory, oStats, oPast, oResults, oContext, oFull,
                   oPending, oYielded, oResult, oStart, oRequests, storeVars>>
    /\ UNCHANGED notOrch

\* ContextMemoryStore.cleanup_old_contexts(days): days = 0 removes every
\* record; no record of the session is a day old
CleanupOldContextsKeepsAll(mem, days) == mem

CleanupOldContexts(mem, days) == IF days = 0 THEN <<>> ELSE mem

\* clear_all_caches(), between two requests: vector_store_manager.clear_cache(),
\* prompt_cache.clear_cache(), memory_store.cleanup_old_contexts(days=0)
ClearAllCaches ==
    /\ oPc \in {"idle", "Done", "Raised", "Abandoned"}
    /\ vstore' = <<>>
    /\ respCache' = EmptyCache
    /\ chunkCache' = EmptyCache
    /\ memory' = CleanupOldContexts(memory, 0)
    /\ oPc' = "Cleared"
    /\ UNCHANGED <<oModel, oMode, oQuestion, oUseCache, oStoreMemory, oRetrievePast,
                   oGenContext, oHistory, oStats, oPast, oResults, oContext, oFull,
                   oPending, oYielded, oResult, oTrace, oStart, oRequests>>
    /\ UNCHANGED notOrch

OrchNext ==
    \/ \E mode \in {"blocking", "stream"}, question \in Questions,
          useCache \in BOOLEAN, history \in HistoryArgs :
          StartRequest(mode, question, useCache, history)
    \/ CheckCacheSkipped
    \/ CheckCacheMiss
    \/ CheckCacheHit
    \/ HitYield
    \/ HitEnd
    \/ RetrieveMemory
    \/ RetrieveDocuments
    \/ BuildContext
    \/ \E outcome \in {"ok", "client_error", "malformed"}, deltas \in Replies :
          GenerateBlocking(outcome, deltas)
    \/ WriteBackBlocking
    \/ \E deltas \in Replies, failAt \in {NoFail, 1} : GenerateStream(deltas, failAt)
    \/ StreamYield
    \/ StreamFinish

(***************************************************************************)
(* Local vector search (src/main.py, src/bedrock_app/embedding.py)         *)
(*                                                                         *)
(* Embeddings are vectors of small integers.  A cosine score is kept as    *)
(* the pair (dot, n1 * n2) that stands for dot / sqrt(n1 * n2), so scores  *)
(* are compared exactly; floating-point rounding is not modelled.          *)
(***************************************************************************)
MaxDocs == 3
MaxTopK == 3

Vectors == {<<0, 0>>, <<1, 0>>, <<2, 0>>, <<1, 1>>, <<-1, 0>>}

\* what one call of the embedding endpoint can do: answer with a vector,
\* answer without one, fail with ClientError, or fail with another exception
\* (botocore's connection and timeout errors are not ClientError)
EmbedOutcomes ==
    {[kind |-> "vector", vec |-> v] : v \in Vectors}
    \cup {[kind |-> k, vec |-> <<>>] : k \in {"empty", "client_error", "connection"}}

\* embed_with_bedrock: response_body.get('embedding', []);
\* except ClientError: return []
EmbedRaises(o) == o.kind = "connection"

EmbedWithBedrock(o) == IF o.kind = "vector" THEN o.vec ELSE <<>>

Dot(v1, v2) == v1[1] * v2[1] + v1[2] * v2[2]

NaN == [nan |-> TRUE, dot |-> 0, nn |-> 0]

\* np.dot(v1, v2) / (np.linalg.norm(v1) * np.linalg.norm(v2)): a zero norm
\* divides 0.0 by 0.0, which numpy answers with nan and a warning
CosineSimilarity(v1, v2) ==
    IF Dot(v1, v1) * Dot(v2, v2) = 0 THEN NaN
    ELSE [nan |-> FALSE, dot |-> Dot(v1, v2), nn |-> Dot(v1, v1) * Dot(v2, v2)]

\* x * |x|: keeps the order of x, and removes the square root from a score
SignedSquare(x) == IF x >= 0 THEN x * x ELSE 0 - x * x

\* a >= b on floats: False whenever one side is nan
ScoreGE(a, b) ==
    /\ ~a.nan
    /\ ~b.nan
    /\ SignedSquare(a.dot) * b.nn >= SignedSquare(b.dot) * a.nn

ScoreEQ(a, b) == ScoreGE(a, b) /\ ScoreGE(b, a)

RECURSIVE InsertScored(_, _)
InsertScored(sorted, r) ==
    IF sorted = <<>> THEN <<r>>
    ELSE IF ScoreGE(Head(sorted).score, r.score)
         THEN <<Head(sorted)>> \o InsertScored(Tail(sorted), r)
         ELSE <<r>> \o sorted

RECURSIVE StableSortScored(_)
StableSortScored(rs) ==
    IF rs = <<>> THEN <<>>
    ELSE InsertScored(StableSortScored(SubSeq(rs, 1, Len(rs) - 1)), rs[Len(rs)])

Rearrangements(rs) ==
    {[i \in 1..Len(rs) |-> rs[p[i]]] :
        p \in {f \in [1..Len(rs) -> 1..Len(rs)] :
                 \A i, j \in 1..Len(rs) : f[i] = f[j] => i = j}}

\* scored.sort(key=lambda x: x[1], reverse=True): a stable descending sort
\* when the keys are ordered; with a nan key the comparisons are
\* inconsistent and the list ends as some rearrangement of itself
SortedOutcomes(scored) ==
    IF \E i \in 1..Len(scored) : scored[i].score.nan
    THEN Rearrangements(scored)
    ELSE {StableSortScored(scored)}

ContentOf(i) == <<"content", i>>

RECURSIVE StoreOf(_, _)
\* the loop of build_vector_store_from_folder over docs[i..]
StoreOf(docs, i) ==
    IF i > Len(docs) THEN <<>>
    ELSE IF EmbedWithBedrock(docs[i]) # <<>>
         THEN <<[filename |-> i, content |-> ContentOf(i),
                 embedding |-> EmbedWithBedrock(docs[i])]>> \o StoreOf(docs, i + 1)
         ELSE StoreOf(docs, i + 1)

Scored(q, store) ==
    [i \in 1..Len(store) |->
        [filename |-> store[i].filename,
         score    |-> CosineSimilarity(q, store[i].embedding),
         content  |-> store[i].content]]

SearchIdle ==
    /\ lDocs = <<>>
    /\ lQuery = [kind |-> "empty", vec |-> <<>>]
    /\ lTopK = 0
    /\ lStore = <<>>
    /\ lResult = <<>>
    /\ lPc = "idle"

SearchInit ==
    /\ lDocs \in SeqsUpTo(EmbedOutcomes, MaxDocs)
    /\ lQuery \in EmbedOutcomes
    /\ lTopK \in 0..MaxTopK
    /\ lStore = <<>>
    /\ lResult = <<>>
    /\ lPc = "loaded"

\* build_vector_store_from_folder(folder_path, embed_model_id)
BuildVectorStoreFromFolder ==
    /\ lPc = "loaded"
    /\ IF \E i \in 1..Len(lDocs) : EmbedRaises(lDocs[i])
       THEN /\ lPc' = "build_raised"
            /\ lStore' = lStore
       ELSE /\ lPc' = "built"
            /\ lStore' = StoreOf(lDocs, 1)
    /\ UNCHANGED <<lDocs, lQuery, lTopK, lResult>>
    /\ UNCHANGED notSearch

\* semantic_search_local(query_text, embed_model_id, store, top_k)
SemanticSearchLocal ==
    /\ lPc = "built"
    /\ IF EmbedRaises(lQuery)
       THEN /\ lPc' = "search_raised"
            /\ lResult' = lResult
       ELSE /\ lPc' = "searched"
            /\ IF EmbedWithBedrock(lQuery) = <<>>
               THEN lResult' = <<>>
               ELSE \E sorted \in SortedOutcomes(Scored(EmbedWithBedrock(lQuery), lStore)) :
                       lResult' = SubSeq(sorted, 1, Min(lTopK, Len(sorted)))
    /\ UNCHANGED <<lDocs, lQuery, lTopK, lStore>>
    /\ UNCHANGED notSearch

SearchNext ==
    \/ BuildVectorStoreFromFolder
    \/ SemanticSearchLocal

(***************************************************************************)
(* Request body and response schema of the six generation entry points     *)
(* (src/bedrock_app/chat.py, rag.py, optimized_rag.py)                     *)
(***************************************************************************)
MaxHistory == 1

BlockingEntries == {"chat_with_bedrock", "answer_with_context", "_invoke_model_with_context"}
StreamEntries == {"chat_stream", "answer_with_context_stream",
                  "_invoke_model_with_context_stream"}
EntryPoints == BlockingEntries \cup StreamEntries

RagEntries == {"answer_with_context", "answer_with_context_stream"}
OrchEntries == {"_invoke_model_with_context", "_invoke_model_with_context_stream"}

\* the fields that tell one family's request body from another's
FamilyFields(f) ==
    IF f = "Claude3" THEN {"anthropic_version", "max_tokens", "messages"}
    ELSE IF f = "ClaudeLegacy" THEN {"prompt", "max_tokens_to_sample"}
    ELSE IF f = "Titan" THEN {"inputText", "textGenerationConfig"}
    ELSE IF f = "LlamaMistral" THEN {"prompt", "max_tokens"}
    ELSE {}

\* sampling fields at the top level of the body: chat.py and rag.py send
\* temperature and top_p, the orchestrator temperature only (and a system
\* prompt to Claude 3); Titan nests them in textGenerationConfig
TopLevelExtras(entry, f) ==
    IF f = "Titan" THEN {}
    ELSE IF entry \in OrchEntries
         THEN {"temperature"} \cup (IF f = "Claude3" THEN {"system"} ELSE {})
         ELSE {"temperature", "top_p"}

\* the branch of the if/elif chain that builds the body; in rag.py one
\* branch serves 'titan', 'llama' and 'mistral' and builds the Titan body
BuildFamily(entry, m) ==
    IF entry \in RagEntries /\ ~HasClaude(m) /\ (HasTitan(m) \/ HasLlama(m) \/ HasMistral(m))
    THEN "Titan"
    ELSE Family(m)

NoBody == [family |-> "Unsupported", fields |-> {}, messages |-> 0]

\* the keys of the body dict, and for Claude 3 the length of 'messages'
RequestBody(entry, m, history) ==
    LET f == BuildFamily(entry, m)
    IN IF f = "Unsupported" THEN NoBody
       ELSE [family   |-> f,
             fields   |-> FamilyFields(f) \cup TopLevelExtras(entry, f),
             messages |-> IF f = "Claude3" THEN history + 1 ELSE 0]

\* the branch that reads the response: the blocking entry points decode per
\* Claude 3 / older Claude / Titan / Llama-Mistral; the streaming ones go
\* through invoke_model_stream, whose 'claude' branch reads delta.text, the
\* Claude 3 frame, for every Claude id
DecodeFamily(entry, m) ==
    IF entry \in StreamEntries /\ HasClaude(m) THEN "Claude3"
    ELSE Family(m)

DispatchIdle ==
    /\ dEntry = "chat_stream"
    /\ dModel = "cohere.command"
    /\ dHistory = 0
    /\ dBody = NoBody
    /\ dDecodedAs = "Unsupported"
    /\ dPc = "idle"

DispatchInit ==
    /\ dEntry \in EntryPoints
    /\ dModel \in ModelIds
    /\ dHistory \in 0..MaxHistory
    /\ dBody = NoBody
    /\ dDecodedAs = "Unsupported"
    /\ dPc = "called"

\* the body is built and sent, or the else branch returns
BuildAndSend ==
    /\ dPc = "called"
    /\ dBody' = RequestBody(dEntry, dModel, dHistory)
    /\ dPc' = IF BuildFamily(dEntry, dModel) = "Unsupported" THEN "unsupported" ELSE "sent"
    /\ UNCHANGED <<dEntry, dModel, dHistory, dDecodedAs>>
    /\ UNCHANGED notDispatch

\* the response, or its first frame, is decoded
DecodeResponse ==
    /\ dPc = "sent"
    /\ dDecodedAs' = DecodeFamily(dEntry, dModel)
    /\ dPc' = "decoded"
    /\ UNCHANGED <<dEntry, dModel, dHistory, dBody>>
    /\ UNCHANGED notDispatch

DispatchNext ==
    \/ BuildAndSend
    \/ DecodeResponse

(***************************************************************************)
(* Specifications: one per component, the other components idle            *)
(***************************************************************************)
InitRetry == RetryInit /\ AdapterIdle /\ OrchIdle /\ CacheIdle /\ RagUiIdle /\ TagsIdle
    /\ SearchIdle /\ DispatchIdle /\ EquivIdle /\ TurnIdle

SpecRetry == InitRetry /\ [][RetryNext]_vars

\* every iteration of the for loop comes to its end: the wrapped call
\* returns or raises, and time.sleep returns
SpecRetryFair == SpecRetry /\ WF_vars(RetryNext)

InitAdapter == AdapterInit /\ RetryIdle /\ OrchIdle /\ CacheIdle /\ RagUiIdle /\ TagsIdle
    /\ SearchIdle /\ DispatchIdle /\ EquivIdle /\ TurnIdle

InitOrch == OrchInit /\ RetryIdle /\ AdapterIdle /\ CacheIdle /\ RagUiIdle /\ TagsIdle
    /\ SearchIdle /\ DispatchIdle /\ EquivIdle /\ TurnIdle

InitCache == CacheIdle /\ RetryIdle /\ AdapterIdle /\ OrchIdle /\ RagUiIdle /\ TagsIdle
    /\ SearchIdle /\ DispatchIdle /\ EquivIdle /\ TurnIdle

SpecCache == InitCache /\ [][CacheNext]_vars

InitRagUi == RagUiInit /\ AdapterIdle /\ OrchIdle /\ CacheIdle /\ TagsIdle
    /\ SearchIdle /\ DispatchIdle /\ EquivIdle /\ TurnIdle

SpecRagUi == InitRagUi /\ [][RagUiNext]_vars

InitTags == TagsInit /\ RetryIdle /\ AdapterIdle /\ OrchIdle /\ CacheIdle /\ RagUiIdle
    /\ SearchIdle /\ DispatchIdle /\ EquivIdle /\ TurnIdle

SpecTags == InitTags /\ [][CallExtractTags]_vars

InitSearch == SearchInit /\ RetryIdle /\ AdapterIdle /\ OrchIdle /\ CacheIdle /\ RagUiIdle
    /\ TagsIdle /\ DispatchIdle /\ EquivIdle /\ TurnIdle

SpecSearch == InitSearch /\ [][SearchNext]_vars

InitDispatch == DispatchInit /\ RetryIdle /\ AdapterIdle /\ OrchIdle /\ CacheIdle /\ RagUiIdle
    /\ TagsIdle /\ SearchIdle /\ EquivIdle /\ TurnIdle

SpecDispatch == InitDispatch /\ [][DispatchNext]_vars

SpecOrch == InitOrch /\ [][OrchNext]_vars

\* a session of one chat model with the caller's other moves:
\* clear_all_caches is called between requests, a stream is given up
InitClear == InitOrch /\ oModel = "anthropic.claude-3-sonnet"

ClearNext ==
    \/ OrchNext
    \/ ClearAllCaches
    \/ AbandonStream

SpecClear == InitClear /\ [][ClearNext]_vars

SpecAdapter == InitAdapter /\ [][AdapterNext]_vars

(***************************************************************************)
(* RetryPolicy: claims                                                     *)
(***************************************************************************)
Failed(o) == o \in {"throttled", "error"}

\* C8: k failed calls followed by a call that returns make
\* retry_bedrock_call return exactly the value of that (k+1)-th call, and
\* the successful call is the last call ever made.
C8_ReturnsFirstSuccess ==
    \A i \in 1..Len(rLog) :
        rLog[i] = "ok" =>
            /\ i = Len(rLog)
            /\ \A j \in 1..(i - 1) : Failed(rLog[j])
            /\ rPc = "done"
            /\ rResult = rReturned

C8_Witness ==
    /\ rVariant = "app"
    /\ rRetries = 5
    /\ rLog = <<"throttled", "throttled", "throttled", "ok">>
    /\ rPc = "done"
    /\ rResult = <<"o", "k">>

\* C9 (as stated): every sleep that follows a throttled attempt of the
\* app.py policy lasts no longer than max_delay.
C9_SleepWithinCap ==
    \A i \in 1..Len(rSleeps) :
        (rVariant = "app" /\ rSleeps[i].kind = "throttled")
            => rSleeps[i].time <= rMax

\* C9 (amended): every sleep that follows a throttled attempt of the app.py
\* policy lasts no longer than max_delay plus the 0.5 s jitter bound.
C9_SleepWithinCapPlusJitter ==
    \A i \in 1..Len(rSleeps) :
        (rVariant = "app" /\ rSleeps[i].kind = "throttled")
            => rSleeps[i].time <= rMax + JitterMax

C9_Witness ==
    /\ rVariant = "app"
    /\ \E i \in 1..Len(rSleeps) :
          /\ rSleeps[i].kind = "throttled"
          /\ rSleeps[i].time > rMax
          /\ rBase * (2 ^ (rSleeps[i].attempt - 1)) > rMax

Exhausted ==
    /\ rPc = "done"
    /\ Len(rLog) = rRetries
    /\ \A i \in 1..Len(rLog) : Failed(rLog[i])

\* C10: after every attempt has failed the function returns a value that no
\* successful call of the wrapped function can return, and that is neither
\* None nor the empty string.
C10_TerminalFailureDistinguishable ==
    Exhausted =>
        /\ rResult \notin FuncReturns
        /\ rResult # None
        /\ rResult # <<>>

(***************************************************************************)
(* ProviderAdapter: claims                                                 *)
(***************************************************************************)
AllStreamsDone == \A cs \in Flags : sPc[cs] = "done"

\* C5: for every supported family and every simulated provider response
\* that does not fail, the concatenation of the fragments of the streaming
\* invocation equals the text chat_with_bedrock returns.
C5_StreamEqualsBlocking ==
    (Supported(aModel) /\ aFailAt = NoFail /\ aBlockPc = "done" /\ AllStreamsDone)
        => \A cs \in Flags : Concat(sYielded[cs]) = aBlockResult

\* C6: the fragments yielded with character_stream=True concatenate to the
\* same text as those yielded with character_stream=False, for every
\* family and every stream, failing or not.
C6_RechunkingPreservesText ==
    AllStreamsDone => Concat(sYielded[TRUE]) = Concat(sYielded[FALSE])

C6_Witness ==
    /\ AllStreamsDone
    /\ HasTitan(aModel)
    /\ aDeltas = <<LongText, <<"a">>>>
    /\ aFailAt = NoFail
    /\ sYielded[FALSE] = <<LongText, <<"a">>>>
    /\ Len(sYielded[TRUE]) = 3
    /\ Len(sYielded[TRUE][1]) = ChunkSize

(***************************************************************************)
(* Orchestrator: claims                                                    *)
(***************************************************************************)
\* the request in progress looked up a question the response cache held
\* when the request started
HitRequest ==
    /\ oRequests > 0
    /\ oUseCache
    /\ oPc # "CheckCache"
    /\ GetCachedResponse(oStart.respCache, oQuestion, NoContext) # NoEntry

\* the request in progress went past CheckCache without a hit
MissRequest ==
    /\ oRequests > 0
    /\ oPc # "CheckCache"
    /\ ~HitRequest

InTrace(e) == \E i \in 1..Len(oTrace) : oTrace[i] = e

CountInTrace(e) == Cardinality({i \in 1..Len(oTrace) : oTrace[i] = e})

Tokens(yielded) == [i \in 1..Len(yielded) |-> yielded[i].token]

\* C1: in both modes a request whose cache lookup hits does nothing but
\* the lookup: no memory retrieval, no document search, no generation
\* call, and the response cache, the chunk cache and the memory are as
\* they were when the request started.
C1_HitGoesStraightToDone ==
    HitRequest =>
        /\ oPc \in {"HitYield", "Done"}
        /\ \A i \in 1..Len(oTrace) : oTrace[i] \in {"cache_get", "done"}
        /\ oStats.cache_hit
        /\ oGenContext = None
        /\ respCache = oStart.respCache
        /\ chunkCache = oStart.chunkCache
        /\ memory = oStart.memory

C1_Witness ==
    /\ HitRequest
    /\ oMode = "stream"
    /\ oPc = "Done"
    /\ Len(oYielded) = 2
    /\ oTrace = <<"cache_get", "done">>

\* C2: on a cache hit the caller receives the stored response unmodified:
\* the blocking call returns it, and the fragments of the stream
\* concatenate to it.
C2_HitReturnsStoredResponse ==
    (HitRequest /\ oPc = "Done") =>
        LET stored == GetCachedResponse(oStart.respCache, oQuestion, NoContext).response
        IN IF oMode = "blocking"
           THEN oResult.response = stored
           ELSE Concat(Tokens(oYielded)) = stored

\* position of an effect in the order CheckCache, RetrieveMemory,
\* RetrieveDocuments, BuildContext, Generate, WriteBack, Done
Rank(e) ==
    CASE e = "cache_get" -> 1
      [] e = "mem_get" -> 2
      [] e = "search" -> 3
      [] e = "build" -> 4
      [] e = "chunk_put" -> 5
      [] e = "generate" -> 6
      [] e = "endpoint" -> 7
      [] e = "generated" -> 8
      [] e = "resp_put" -> 9
      [] e = "mem_put" -> 10
      [] OTHER -> 11

\* C3: on the cache-miss path the effects of a request occur in the order
\* CheckCache, RetrieveMemory, RetrieveDocuments, BuildContext, Generate,
\* WriteBack, Done, each at most once (but one chunk-cache insert per
\* result); and until generation has produced the full response the
\* response cache and the memory are as they were when the request started.
C3_MissPathOrder ==
    MissRequest =>
        /\ \A i, j \in 1..Len(oTrace) :
              i < j => \/ Rank(oTrace[i]) < Rank(oTrace[j])
                       \/ oTrace[i] = "chunk_put" /\ oTrace[j] = "chunk_put"
        /\ InTrace("generate") => InTrace("search") /\ InTrace("build")
        /\ (oRetrievePast /\ InTrace("search")) => InTrace("mem_get")
        /\ (InTrace("resp_put") \/ InTrace("mem_put")) => InTrace("generated")
        /\ ~InTrace("generated") =>
              respCache = oStart.respCache /\ memory = oStart.memory
        /\ oPc = "Done" => InTrace("generate")

C3_Witness ==
    /\ MissRequest
    /\ oMode = "stream"
    /\ oPc = "Done"
    /\ oTrace = <<"cache_get", "mem_get", "search", "build", "chunk_put", "chunk_put",
                  "chunk_put", "generate", "endpoint", "generated", "resp_put",
                  "mem_put", "done">>
    /\ respCache # oStart.respCache
    /\ memory # oStart.memory

\* C4: a request whose document search returns nothing and whose memory
\* lookup returns nothing (or is disabled) reports contexts_retrieved = 0
\* and memory_reused = false in every stats value it delivers, and still
\* makes the generation call exactly once, with an empty context (and, for
\* a supported model, one call of the endpoint).
C4_EmptyContextStillGenerates ==
    (MissRequest /\ oPc \in {"WriteBack", "Streaming", "Done", "Raised"}
        /\ oResults = <<>> /\ oPast = <<>>) =>
        /\ oStats.contexts_retrieved = 0
        /\ ~oStats.memory_reused
        /\ \A i \in 1..Len(oYielded) :
              oYielded[i].stats.contexts_retrieved = 0 /\ ~oYielded[i].stats.memory_reused
        /\ (oResult # NoResult) =>
              oResult.stats.contexts_retrieved = 0 /\ ~oResult.stats.memory_reused
        /\ CountInTrace("generate") = 1
        /\ oGenContext = <<>>
        /\ CountInTrace("endpoint") = (IF Supported(oModel) THEN 1 ELSE 0)

C4_Witness ==
    /\ MissRequest
    /\ oMode = "stream"
    /\ ~oUseCache /\ ~oStoreMemory /\ ~oRetrievePast
    /\ oPc = "Done"
    /\ oResults = <<>>
    /\ oGenContext = <<>>
    /\ Len(oYielded) > 0
    /\ CountInTrace("endpoint") = 1

(***************************************************************************)
(* PromptCache: claims                                                     *)
(***************************************************************************)
\* the puts before call j that wrote the key call j reads, and that no
\* clear_cache has followed before call j
PutsSeenBy(j) ==
    {i \in 1..(j - 1) :
        /\ cOps[i].op = "put"
        /\ CacheKey(cOps[i].question, cOps[i].context)
              = CacheKey(cOps[j].question, cOps[j].context)
        /\ \A k \in (i + 1)..(j - 1) : cOps[k].op # "clear"}

Latest(S) == CHOOSE i \in S : \A k \in S : k <= i

\* C7: a get(q, c) made after a put(q, c, r, m, t) returns an entry whose
\* response is exactly r, and after several puts on the same (q, c) the
\* response of the latest one.
C7_PutGetRoundTrip ==
    \A j \in 1..Len(cOps) :
        (cOps[j].op = "get" /\ PutsSeenBy(j) # {}) =>
            /\ cOps[j].result # NoEntry
            /\ cOps[j].result.response = cOps[Latest(PutsSeenBy(j))].response

C7_Witness ==
    /\ Len(cOps) = 3
    /\ cOps[1].op = "put" /\ cOps[2].op = "put" /\ cOps[3].op = "get"
    /\ cOps[1].question = cOps[3].question /\ cOps[1].context = cOps[3].context
    /\ cOps[2].question = cOps[3].question /\ cOps[2].context = cOps[3].context
    /\ cOps[1].response = <<"a">>
    /\ cOps[2].response = <<"a", " ", "\n", "b">>
    /\ cOps[3].result.response = <<"a", " ", "\n", "b">>

(***************************************************************************)
(* run_rag_ui: claims                                                      *)
(***************************************************************************)
\* the first invoke_model call of the question was throttled
FirstCallThrottled == gCalls # <<>> /\ gCalls[1] = "throttling"

\* C11: when the endpoint throttles the first call, retry_bedrock_call does
\* not return before answer_with_context has been attempted again (or the
\* attempts are used up).
C11_ThrottlingIsRetried ==
    (FirstCallThrottled /\ rPc \in {"returned", "done"}) =>
        (Len(rLog) > 1 \/ Len(rLog) = rRetries)

\* C13: a response body without the family's response field is not retried:
\* no invoke_model call follows it.
C13_DecodeErrorNotRetried ==
    \A i \in 1..Len(gCalls) : gCalls[i] = "malformed" => i = Len(gCalls)

(***************************************************************************)
(* RetryPolicy: more claims                                                *)
(***************************************************************************)
\* C12: an exception without a throttling text uses up an attempt like a
\* throttling one: the function is called at most `retries` times over any
\* mix of the two, app.py sleeps its fixed one second after such an
\* exception, and unless that was the last attempt the function is called
\* again.
C12_OtherErrorsShareBudget ==
    /\ Len(rLog) <= rRetries
    /\ Len(rSleeps) = Cardinality({i \in 1..Len(rLog) : Failed(rLog[i])})
    /\ \A i \in 1..Len(rSleeps) :
          (rVariant = "app" /\ rSleeps[i].kind = "error") =>
              rSleeps[i].time = OtherErrorSleep
    /\ \A i \in 1..Len(rLog) :
          (rLog[i] = "error" /\ i < rRetries) => (Len(rLog) > i \/ rPc = "loop")

C12_Witness ==
    /\ rVariant = "app"
    /\ rRetries = 3
    /\ rLog = <<"error", "throttled", "error">>
    /\ rPc = "done"
    /\ rResult = AppSentinel

(***************************************************************************)
(* Orchestrator: error handling claims                                     *)
(***************************************************************************)
\* the request ended with the orchestrator's error result: the error dict
\* of the blocking call, or a diagnostic fragment in the stream
EndedInError ==
    /\ oPc = "Done"
    /\ InTrace("endpoint")
    /\ IF oMode = "blocking" THEN oResult.kind = "error"
       ELSE \E i \in 1..Len(oYielded) : oYielded[i].token = ErrorText

\* C14: the orchestrator gives its error result only after the provider
\* call has been attempted more than once (the attempts of the retry policy
\* used up), never after a single failed provider call.
C14_GenerateIsRetried ==
    EndedInError => CountInTrace("endpoint") > 1

(***************************************************************************)
(* ProviderAdapter: error handling claims                                  *)
(***************************************************************************)
\* C15: for a model id of no supported family neither chat_with_bedrock nor
\* the streaming entry point in use (chat_stream or invoke_model_stream)
\* makes a call to the generation endpoint.
C15_UnsupportedMakesNoCall ==
    ~Supported(aModel) =>
        /\ aBlockCalls = 0
        /\ \A cs \in Flags : sCalls[cs] = 0

\* positions of the "Error: ..." diagnostic in a sequence of fragments
DiagnosticAt(fragments) == {i \in 1..Len(fragments) : fragments[i] = ErrorText}

CompletedMiss ==
    /\ MissRequest
    /\ oPc = "Done"
    /\ oMode = "blocking" => oResult.kind = "generated"

\* the text delivered to the caller of the finished request
Delivered ==
    IF oMode = "blocking" THEN oResult.response ELSE Concat(Tokens(oYielded))

RECURSIVE WordCount(_, _)
\* number of maximal runs of non-whitespace characters; inWord tells whether
\* the character before the text belongs to a word
WordCount(text, inWord) ==
    IF text = <<>> THEN 0
    ELSE IF IsSpace(Head(text)) THEN WordCount(Tail(text), FALSE)
    ELSE (IF inWord THEN 0 ELSE 1) + WordCount(Tail(text), TRUE)

\* C17: a finished cache-miss request with use_cache has written exactly
\* one response-cache entry, under (question, built context), holding the
\* text delivered to the caller, the model id and tokens_saved =
\* floor(wordCount(context) / 4); every other entry is as it was; the stats
\* carry the same tokens_saved and the "newly_cached" tag.
C17_WriteBackStoresDelivered ==
    (CompletedMiss /\ oUseCache) =>
        LET saved == WordCount(oContext, FALSE) \div 4
            key == CacheKey(oQuestion, oContext)
        IN /\ DOMAIN respCache = DOMAIN oStart.respCache \cup {key}
           /\ \A k \in DOMAIN oStart.respCache : k # key => respCache[k] = oStart.respCache[k]
           /\ respCache[key] = [response |-> Delivered, model_id |-> oModel,
                                tokens_saved |-> saved]
           /\ CountInTrace("resp_put") = 1
           /\ oStats.tokens_saved = saved
           /\ \E i \in 1..Len(oStats.optimization_source) :
                 oStats.optimization_source[i] = "newly_cached"

C17_Witness ==
    /\ CompletedMiss
    /\ oUseCache
    /\ oMode = "stream"
    /\ Len(oYielded) > 1
    /\ oStats.tokens_saved = 2
    /\ oRequests = 2
    /\ Cardinality(DOMAIN respCache) = 2

HasTag(stats, tag) ==
    \E i \in 1..Len(stats.optimization_source) : stats.optimization_source[i] = tag

\* C18: every stored memory record has confidence 0.85 when its request
\* retrieved at least one document and 0.5 otherwise (scores in hundredths,
\* so within 0..100); a finished cache-miss request appends exactly one
\* record and tags the stats "memory_stored" when store_memory is on, and
\* leaves the memory and the tag alone when it is off.
C18_ConfidenceByRetrieval ==
    /\ \A i \in 1..Len(memory) :
          /\ memory[i].confidence_score \in 0..100
          /\ memory[i].confidence_score =
                (IF memory[i].metadata.retrieved_docs > 0 THEN 85 ELSE 50)
    /\ CompletedMiss =>
          IF oStoreMemory
          THEN /\ Len(memory) = Len(oStart.memory) + 1
               /\ SubSeq(memory, 1, Len(oStart.memory)) = oStart.memory
               /\ memory[Len(memory)].query = oQuestion
               /\ memory[Len(memory)].response = Delivered
               /\ memory[Len(memory)].metadata.retrieved_docs = Len(oResults)
               /\ HasTag(oStats, "memory_stored")
          ELSE /\ memory = oStart.memory
               /\ ~HasTag(oStats, "memory_stored")
    /\ (oRequests > 0 /\ ~CompletedMiss /\ oPc \in {"Done", "Raised"}) =>
          memory = oStart.memory

C18_Witness ==
    /\ CompletedMiss
    /\ oStoreMemory
    /\ Len(memory) = 2
    /\ Len(oResults) = 0
    /\ memory[2].confidence_score = 50
    /\ HasTag(oStats, "memory_stored")

(***************************************************************************)
(* _extract_tags: claims                                                   *)
(***************************************************************************)
\* the question, in lower case, contains a keyword of the category
Matches(question, category) ==
    \E w \in Keywords(category) : Contains(Lower(question), w)

\* position of a category in the fixed order
CategoryIndex(category) == CHOOSE i \in 1..Len(Categories) : Categories[i] = category

\* C19: _extract_tags returns matching categories only, in the order
\* implementation, explanation, troubleshooting, design, without repeats,
\* at most 3 of them; a matching category is left out only when 3 matching
\* categories precede it (so "design" is dropped when all four match);
\* "How do I fix this error?" yields implementation and troubleshooting.
C19_TagsInOrderAtMostThree ==
    tPc = "done" =>
        /\ Len(tTags) <= 3
        /\ \A i \in 1..Len(tTags) :
              /\ \E j \in 1..Len(Categories) : Categories[j] = tTags[i]
              /\ Matches(tQuestion, tTags[i])
        /\ \A i, j \in 1..Len(tTags) :
              i < j => CategoryIndex(tTags[i]) < CategoryIndex(tTags[j])
        /\ \A j \in 1..Len(Categories) :
              Matches(tQuestion, Categories[j]) =>
                  \/ \E i \in 1..Len(tTags) : tTags[i] = Categories[j]
                  \/ Cardinality({k \in 1..(j - 1) : Matches(tQuestion, Categories[k])}) >= 3
        /\ (\A j \in 1..Len(Categories) : Matches(tQuestion, Categories[j])) =>
              tTags = <<"implementation", "explanation", "troubleshooting">>
        /\ tQuestion = FixThisError => tTags = <<"implementation", "troubleshooting">>

C19_Witness ==
    /\ tPc = "done"
    /\ \A j \in 1..Len(Categories) : Matches(tQuestion, Categories[j])
    /\ tTags = <<"implementation", "explanation", "troubleshooting">>

(***************************************************************************)
(* Orchestrator: streaming stats claims                                    *)
(***************************************************************************)
\* the stats dict the consumer of the stream holds after the last pull: the
\* last copy it received, whose optimization_source is the list of the live
\* dict; the consumer holds no stats when nothing was yielded
DeliveredStats ==
    IF oYielded = <<>> THEN [delivered |-> FALSE]
    ELSE [delivered |-> TRUE,
          tokens_saved |-> oYielded[Len(oYielded)].stats.tokens_saved,
          optimization_source |-> oStats.optimization_source]

\* C20: when a streamed cache-miss request has ended, the consumer holds
\* stats with the final tokens_saved and with the "newly_cached" and
\* "memory_stored" tags of the write-back, also when no fragment was
\* yielded.
C20_StreamDeliversFinalStats ==
    (oMode = "stream" /\ CompletedMiss) =>
        /\ DeliveredStats.delivered
        /\ DeliveredStats.tokens_saved = oStats.tokens_saved
        /\ oUseCache => HasTag(DeliveredStats, "newly_cached")
        /\ oStoreMemory => HasTag(DeliveredStats, "memory_stored")

(***************************************************************************)
(* Local vector search claims                                              *)
(***************************************************************************)
Searched == lPc = "searched"

QueryEmbedded == EmbedWithBedrock(lQuery) # <<>>

\* C21: semantic_search_local returns at most top_k results, exactly
\* min(top_k, number of stored records) of them when the query embedding
\* succeeds, and their scores never increase from one result to the next.
C21_TopKByDescendingScore ==
    Searched =>
        /\ Len(lResult) <= lTopK
        /\ QueryEmbedded => Len(lResult) = Min(lTopK, Len(lStore))
        /\ \A i \in 1..(Len(lResult) - 1) :
              ScoreGE(lResult[i].score, lResult[i + 1].score)

\* the score the search computes for a stored record
ScoreOfRecord(r) == CosineSimilarity(EmbedWithBedrock(lQuery), r.embedding)

Returned == {lResult[i].filename : i \in 1..Len(lResult)}

\* C22: records of equal similarity come back in insertion order (the
\* filename is the insertion index), and when top_k cuts through a tie the
\* records inserted earlier are the ones kept.
C22_TiesKeepInsertionOrder ==
    (Searched /\ QueryEmbedded) =>
        /\ \A i, j \in 1..Len(lResult) :
              (i < j /\ ScoreEQ(lResult[i].score, lResult[j].score)) =>
                  lResult[i].filename < lResult[j].filename
        /\ \A k \in 1..Len(lStore), i \in 1..Len(lResult) :
              (lStore[k].filename \notin Returned
               /\ ScoreEQ(ScoreOfRecord(lStore[k]), lResult[i].score)) =>
                  lResult[i].filename < lStore[k].filename

RECURSIVE WithoutNaN(_)
WithoutNaN(scored) ==
    IF scored = <<>> THEN <<>>
    ELSE IF Head(scored).score.nan THEN WithoutNaN(Tail(scored))
         ELSE <<Head(scored)>> \o WithoutNaN(Tail(scored))

\* C23: a zero-norm query or stored vector makes the comparison a failure:
\* the record is left out, no result carries a NaN score, and the other
\* records are ranked as if the left-out ones were not in the store.
C23_ZeroNormExcluded ==
    (Searched /\ QueryEmbedded) =>
        LET comparable == StableSortScored(
                WithoutNaN(Scored(EmbedWithBedrock(lQuery), lStore)))
        IN /\ \A i \in 1..Len(lResult) : ~lResult[i].score.nan
           /\ lResult = SubSeq(comparable, 1, Min(lTopK, Len(comparable)))

\* the documents whose embedding call returned a non-empty vector
Embedded == {i \in 1..Len(lDocs) : lDocs[i].kind = "vector"}

\* C24: the built store holds exactly the documents whose embedding call
\* returned a non-empty vector, in input order; an embedding call that fails
\* or returns nothing skips that one document and never aborts the batch;
\* a failing query embedding makes the search return [] without raising.
C24_FailedEmbeddingSkipsOne ==
    /\ lPc # "build_raised"
    /\ lPc # "search_raised"
    /\ lPc \in {"built", "searched"} =>
          /\ {lStore[k].filename : k \in 1..Len(lStore)} = Embedded
          /\ \A k \in 1..Len(lStore) :
                /\ lStore[k].embedding = lDocs[lStore[k].filename].vec
                /\ k > 1 => lStore[k - 1].filename < lStore[k].filename
    /\ (Searched /\ ~QueryEmbedded) => lResult = <<>>

(***************************************************************************)
(* Orchestrator: clear_all_caches                                          *)
(***************************************************************************)
\* the stats the caller has been given by the request so far
StatsSeen ==
    {oStats} \cup {oYielded[i].stats : i \in 1..Len(oYielded)}
    \cup (IF oResult = NoResult THEN {} ELSE {oResult.stats})

\* C25: cleanup_old_contexts(0) leaves the memory empty, and a request that
\* runs after clear_all_caches, with no write to the response cache or the
\* memory in between, reports neither memory_reused nor cache_hit.
C25_NothingReusedAfterClear ==
    /\ oPc = "Cleared" => memory = <<>>
    /\ (oRequests > 0 /\ oStart.cleared) =>
          \A st \in StatsSeen : ~st.cache_hit /\ ~st.memory_reused

C25_Witness ==
    /\ oRequests = 2
    /\ oStart.cleared
    /\ oPc = "Done"
    /\ oUseCache
    /\ oRetrievePast
    /\ oTrace[1] = "cache_get"
    /\ oTrace[2] = "mem_get"

(***************************************************************************)
(* Orchestrator: the stats of one request                                  *)
(***************************************************************************)
IsPrefix(s, t) == Len(s) <= Len(t) /\ SubSeq(t, 1, Len(s)) = s

\* no flag goes back to false and no counter goes down from old to new
ScalarsAccumulate(old, new) ==
    /\ old.cache_hit => new.cache_hit
    /\ old.memory_reused => new.memory_reused
    /\ old.contexts_retrieved <= new.contexts_retrieved
    /\ old.tokens_saved <= new.tokens_saved

\* C26: within one request the stats only accumulate: in every step of the
\* request no flag goes from true to false, no counter decreases and
\* optimization_source grows by appending, and every stats copy already
\* yielded is below the copies yielded after it and below the live stats.
C26_StatsOnlyAccumulate ==
    [][oRequests' = oRequests =>
          /\ ScalarsAccumulate(oStats, oStats')
          /\ IsPrefix(oStats.optimization_source, oStats'.optimization_source)
          /\ \A i \in 1..Len(oYielded') :
                /\ ScalarsAccumulate(oYielded'[i].stats, oStats')
                /\ \A j \in i..Len(oYielded') :
                      ScalarsAccumulate(oYielded'[i].stats, oYielded'[j].stats)]_vars

C26_Witness ==
    /\ oPc = "Done"
    /\ oMode = "stream"
    /\ Len(oYielded) > 1
    /\ oStats.memory_reused
    /\ oStats.contexts_retrieved = 3
    /\ oStats.tokens_saved > 0
    /\ oStats.optimization_source = <<"context_memory", "newly_cached", "memory_stored">>

(***************************************************************************)
(* Orchestrator: retrieval and context                                     *)
(***************************************************************************)
\* the request missed the cache and has built its context
ContextBuilt ==
    /\ oPc \in {"Generate", "WriteBack", "Streaming", "Done", "Raised"}
    /\ MissRequest

\* C27: a cache-miss request runs the document search exactly once, with
\* top_k = 3, whatever use_cache, store_memory and retrieve_past_contexts
\* are; contexts_retrieved is the number of results, at most 3; and every
\* retrieved chunk is in the chunk cache under its filename and score
\* before the generation call is made.
C27_OneSearchChunksCachedFirst ==
    /\ CountInTrace("search") <= 1
    /\ ContextBuilt =>
          /\ CountInTrace("search") = 1
          /\ oResults = SubSeq(SortByScore(vstore), 1, Min(3, Len(vstore)))
          /\ oStats.contexts_retrieved = Len(oResults)
          /\ Len(oResults) <= 3
          /\ CountInTrace("chunk_put") = Len(oResults)
          /\ \A i \in 1..Len(oResults) :
                /\ oResults[i].content \in DOMAIN chunkCache
                /\ chunkCache[oResults[i].content] =
                      [source |-> oResults[i].filename, score |-> oResults[i].score]
          /\ \A j \in 1..Len(oTrace) :
                oTrace[j] = "generate" =>
                    \A i \in j..Len(oTrace) : oTrace[i] \notin {"search", "chunk_put"}

C27_Witness ==
    /\ ContextBuilt
    /\ oPc = "Generate"
    /\ Len(vstore) = 4
    /\ Len(oResults) = 3
    /\ ~oUseCache
    /\ ~oStoreMemory
    /\ ~oRetrievePast

\* the blocks of the context: one per past context, then one per document
Blocks ==
    [i \in 1..(Len(oPast) + Len(oResults)) |->
        IF i <= Len(oPast)
        THEN [label |-> MemoryLabel(oPast[i].confidence_score),
              text  |-> oPast[i].response]
        ELSE [label |-> DocLabel(oResults[i - Len(oPast)].filename),
              text  |-> oResults[i - Len(oPast)].content]]

RECURSIVE BlocksText(_)
\* each block is its label line, then its text line; an empty line
\* separates two blocks
BlocksText(blocks) ==
    IF blocks = <<>> THEN <<>>
    ELSE Head(blocks).label \o <<"\n">> \o Head(blocks).text \o <<"\n">>
         \o (IF Len(blocks) > 1 THEN <<"\n">> \o BlocksText(Tail(blocks)) ELSE <<>>)

\* C28: the context lists the memory blocks before the document blocks,
\* each group in the order its lookup returned it, every block being its
\* label line followed by its text; and the context handed to the
\* generation call is the string the write-back gives to the response
\* cache and to the memory.
C28_ContextOrderAndIdentity ==
    ContextBuilt =>
        /\ oContext = BlocksText(Blocks)
        /\ oGenContext # None => oGenContext = oContext
        /\ (oPc = "Done" /\ InTrace("resp_put")) =>
              /\ oGenContext # None
              /\ CacheKey(oQuestion, oGenContext) \in DOMAIN respCache
              /\ DOMAIN respCache =
                    DOMAIN oStart.respCache \cup {CacheKey(oQuestion, oGenContext)}
        /\ (oPc = "Done" /\ InTrace("mem_put")) =>
              /\ oGenContext # None
              /\ memory # <<>>
              /\ memory[Len(memory)].context = oGenContext

C28_Witness ==
    /\ ContextBuilt
    /\ oPc = "Done"
    /\ Len(oPast) = 1
    /\ Len(oResults) = 3
    /\ InTrace("resp_put")
    /\ InTrace("mem_put")

(***************************************************************************)
(* Request body and response schema claims                                 *)
(***************************************************************************)
\* C29: for every model id and each of the six entry points, the family
\* whose request body is built is the family whose response schema is
\* decoded, it is the family of the model id, and the body carries that
\* family's fields: a Llama or Mistral id gets prompt and max_tokens, never
\* Titan's inputText.
C29_OneFamilyPerCall ==
    /\ dPc \in {"sent", "decoded"} =>
          /\ dBody.family = Family(dModel)
          /\ FamilyFields(Family(dModel)) \subseteq dBody.fields
          /\ (HasLlama(dModel) \/ HasMistral(dModel)) => "inputText" \notin dBody.fields
    /\ dPc = "decoded" => dDecodedAs = dBody.family

(***************************************************************************)
(* Orchestrator: a question asked again                                    *)
(***************************************************************************)
\* an earlier request cached a response for the question of this request
AskedBefore ==
    \E k \in DOMAIN oStart.respCache : k[1] = NormalizeText(oQuestion)

\* C30: once a cache-miss request for a question has finished with caching
\* on, the next request for that question with caching on is a cache hit
\* and makes no generation call, whether the first request's context was
\* empty or not.
C30_AskedAgainIsHit ==
    (oRequests > 0 /\ oUseCache /\ oPc # "CheckCache" /\ AskedBefore) =>
        /\ oStats.cache_hit
        /\ ~InTrace("generate")

(***************************************************************************)
(* Orchestrator: failed generation                                         *)
(***************************************************************************)
\* the generation of the request failed: the model id is unsupported, the
\* blocking call returned None or raised, or the stream ended in its
\* "Error: ..." fragment
GenerationFailed ==
    /\ MissRequest
    /\ InTrace("generate")
    /\ \/ ~Supported(oModel)
       \/ oPc = "Raised"
       \/ oResult # NoResult /\ oResult.kind = "error"
       \/ \E i \in 1..Len(oYielded) : oYielded[i].token = ErrorText

\* C31: a request whose generation fails (provider error, stream error or
\* unsupported model) writes nothing to the response cache and nothing to
\* the memory, in blocking and in streaming mode.
C31_FailedGenerationStoresNothing ==
    GenerationFailed =>
        /\ respCache = oStart.respCache
        /\ memory = oStart.memory

StreamOpen == oMode = "stream" /\ oRequests > 0 /\ oPc \notin {"idle", "Done", "Cleared"}

\* C32: a streamed request is driven by the consumer's pulls: while the
\* generator has not been asked for the item after its last fragment
\* (suspended, or given up by the consumer), the response cache and the
\* memory store are as they were when the request started; once it has
\* finished a miss, every fragment of the model had been delivered before
C32_WriteBackOnlyAfterLastPull ==
    /\ StreamOpen => /\ respCache = oStart.respCache
                     /\ memory = oStart.memory
    /\ (oMode = "stream" /\ oPc = "Done" /\ MissRequest) =>
           /\ oPending = <<>>
           /\ Concat(Tokens(oYielded)) = oFull

C32_Witness ==
    /\ oPc = "Abandoned"
    /\ MissRequest
    /\ oUseCache /\ oStoreMemory
    /\ oPending # <<>>
    /\ chunkCache # oStart.chunkCache

\* the snapshot the consumer holds for fragment i: the copied scalar fields
\* and the optimization_source list it shares with the live stats dict
SnapshotView(i) ==
    [scalars |-> oYielded[i].stats,
     optimization_source |-> oStats.optimization_source]

\* C33: a stats snapshot delivered with a fragment is independent of what
\* the request does afterwards: while the request goes on, no field of an
\* already delivered snapshot changes, optimization_source included
C33_DeliveredSnapshotsAreFrozen ==
    [][(oYielded # <<>> /\ IsPrefix(oYielded, oYielded')) =>
          \A i \in 1..Len(oYielded) :
              SnapshotView(i)' = SnapshotView(i)]_vars

(***************************************************************************)
(* The same request in both modes                                          *)
(*                                                                         *)
(* answer_with_optimization is called, what it delivered and left in the   *)
(* stores is noted, the stores are put back as they were, and              *)
(* answer_with_optimization_stream is called with the same arguments and   *)
(* consumed to the end, against the same simulated provider output.        *)
(***************************************************************************)

\* a response cache a session can have reached: empty, or the entry for
\* question "q" written by a request that found no context
SeededCaches(m) ==
    {EmptyCache, CacheResponse(EmptyCache, <<"q">>, <<>>, <<"a", " ", "b">>, m, 0)}

NoFirst == [done |-> FALSE]

\* the simulated provider: it answers with eRun.deltas, or the call fails
ProviderOutcome == IF eRun.provider = "ok" THEN "ok" ELSE "client_error"

ProviderFailAt == IF eRun.provider = "ok" THEN NoFail ELSE 0

\* the stats fields the two modes have in common
StatsView(stats) ==
    [cache_hit |-> stats.cache_hit, memory_reused |-> stats.memory_reused,
     contexts_retrieved |-> stats.contexts_retrieved,
     tokens_saved |-> stats.tokens_saved,
     optimization_source |-> stats.optimization_source]

\* key, response and tokens_saved of every cache entry
CacheView(cache) ==
    [k \in DOMAIN cache |->
        [response |-> cache[k].response, tokens_saved |-> cache[k].tokens_saved]]

\* query, response, confidence score and tags of every memory record
MemoryView(mem) ==
    [i \in 1..Len(mem) |->
        [query |-> mem[i].query, response |-> mem[i].response,
         confidence_score |-> mem[i].confidence_score, tags |-> mem[i].tags]]

EquivInit ==
    /\ oModel \in SessionModels
    /\ respCache \in SeededCaches(oModel)
    /\ chunkCache = EmptyCache
    /\ memory = <<>>
    /\ vstore \in KnowledgeBases
    /\ oMode = "blocking"
    /\ oQuestion = <<>>
    /\ oUseCache = FALSE
    /\ oStoreMemory \in BOOLEAN
    /\ oRetrievePast \in BOOLEAN
    /\ oHistory = <<>>
    /\ oPc = "idle"
    /\ oStats = NewStats("blocking")
    /\ oPast = <<>>
    /\ oResults = <<>>
    /\ oContext = <<>>
    /\ oGenContext = None
    /\ oFull = <<>>
    /\ oPending = <<>>
    /\ oYielded = <<>>
    /\ oResult = NoResult
    /\ oTrace = <<>>
    /\ oStart = [respCache |-> EmptyCache, chunkCache |-> EmptyCache, memory |-> <<>>,
                 cleared |-> FALSE]
    /\ oRequests = 0
    /\ eRun \in [phase : {"first"}, provider : {"ok", "fails"}, deltas : Replies,
                  history : {<<>>} \cup HistoryArgs, first : {NoFirst}]

\* the call of the first mode, then of the second with the same arguments
EquivStart ==
    /\ eRun.phase \in {"first", "second"}
    /\ oPc = "idle"
    /\ \E question \in Questions, useCache \in BOOLEAN :
          /\ eRun.phase = "second" => question = oQuestion /\ useCache = oUseCache
          /\ StartRequest(IF eRun.phase = "first" THEN "blocking" ELSE "stream",
                          question, useCache, eRun.history)

\* the blocking call is over: what it delivered and left behind is noted
\* and the stores are put back as they were before it
Rewind ==
    /\ eRun.phase = "first"
    /\ oPc \in {"Done", "Raised"}
    /\ eRun' = [eRun EXCEPT !.phase = "second",
                   !.first = [done |-> TRUE,
                              raised |-> oPc = "Raised",
                              response |-> IF oPc = "Raised" THEN KeyError
                                           ELSE oResult.response,
                              stats |-> StatsView(IF oPc = "Raised" THEN oStats
                                                  ELSE oResult.stats),
                              cache |-> CacheView(respCache),
                              memory |-> MemoryView(memory)]]
    /\ respCache' = oStart.respCache
    /\ chunkCache' = oStart.chunkCache
    /\ memory' = oStart.memory
    /\ oPc' = "idle"
    /\ UNCHANGED <<oModel, oMode, oQuestion, oUseCache, oStoreMemory, oRetrievePast,
                   oGenContext, oHistory, oStats, oPast, oResults, oContext, oFull,
                   oPending, oYielded, oResult, oTrace, oStart, oRequests, vstore>>
    /\ UNCHANGED notEquiv

EquivNext ==
    \/ EquivStart
    \/ CheckCacheSkipped
    \/ CheckCacheMiss
    \/ CheckCacheHit
    \/ HitYield
    \/ HitEnd
    \/ RetrieveMemory
    \/ RetrieveDocuments
    \/ BuildContext
    \/ GenerateBlocking(ProviderOutcome, eRun.deltas)
    \/ WriteBackBlocking
    \/ GenerateStream(eRun.deltas, ProviderFailAt)
    \/ StreamYield
    \/ StreamFinish
    \/ Rewind

InitEquiv == EquivInit /\ RetryIdle /\ AdapterIdle /\ CacheIdle /\ RagUiIdle /\ TagsIdle
    /\ SearchIdle /\ DispatchIdle /\ TurnIdle

SpecEquiv == InitEquiv /\ [][EquivNext]_vars

BothDone == eRun.phase = "second" /\ oMode = "stream" /\ oPc = "Done"

\* C34: the two modes are equivalent: for the same model id, question,
\* flags, store contents and simulated provider output, the consumed
\* stream delivers the text the blocking call returned, ends with the same
\* cache_hit, memory_reused, contexts_retrieved, tokens_saved and
\* optimization_source, and leaves the response cache and the memory with
\* the same keys, responses, tokens_saved, confidence scores and tags
C34_ModesEquivalent ==
    BothDone =>
        /\ ~eRun.first.raised
        /\ Delivered = eRun.first.response
        /\ StatsView(oStats) = eRun.first.stats
        /\ CacheView(respCache) = eRun.first.cache
        /\ MemoryView(memory) = eRun.first.memory

\* C36: neither mode modifies the message_history list the caller passed:
\* during and after a request the list has the elements it was passed with
C36_CallerHistoryUntouched ==
    (eRun.phase \in {"first", "second"} /\ oRequests > 0) => oHistory = eRun.history

\* the request has got past its generation call
PastGenerate == oPc \in {"WriteBack", "Streaming", "Done", "Raised", "Abandoned"}

\* C35: a disabled flag leaves its store untouched.  With use_cache off the
\* response cache is neither read nor written and the stats carry neither
\* "prompt_cache" nor "newly_cached"; with store_memory off no record is
\* appended to the memory; with retrieve_past_contexts off the memory is
\* not queried and memory_reused stays false; whatever the flags, a request
\* that is not answered from the cache runs the document search and the
\* generation call (with use_cache off no request is answered from it)
C35_DisabledFlagsLeaveStoresAlone ==
    (oRequests > 0 /\ oPc # "Cleared") =>
        /\ ~oUseCache =>
              /\ ~InTrace("cache_get") /\ ~InTrace("resp_put")
              /\ respCache = oStart.respCache
              /\ ~HasTag(oStats, "prompt_cache") /\ ~HasTag(oStats, "newly_cached")
              /\ ~oStats.cache_hit
              /\ oPc # "CheckCache" => MissRequest
        /\ ~oStoreMemory =>
              /\ ~InTrace("mem_put")
              /\ memory = oStart.memory
              /\ ~HasTag(oStats, "memory_stored")
        /\ ~oRetrievePast =>
              /\ ~InTrace("mem_get")
              /\ ~oStats.memory_reused
              /\ ~HasTag(oStats, "context_memory")
        /\ (MissRequest /\ PastGenerate) =>
              /\ CountInTrace("search") = 1
              /\ CountInTrace("generate") = 1

C35_Witness ==
    /\ oPc = "Done"
    /\ oMode = "stream"
    /\ ~oUseCache /\ ~oStoreMemory /\ ~oRetrievePast
    /\ GetCachedResponse(oStart.respCache, oQuestion, NoContext) # NoEntry
    /\ oYielded # <<>>

\* number of iterations whose call raised
FailedAttempts == Cardinality({i \in 1..Len(rLog) : rLog[i] # "ok"})

RetryBounded ==
    /\ Len(rLog) <= rRetries
    /\ \A i \in 1..Len(rLog) : rLog[i] = "ok" => (i = Len(rLog) /\ rPc = "done")
    /\ Len(rSleeps) = FailedAttempts
    /\ \A i \in 1..Len(rSleeps) : rSleeps[i].attempt = i
    /\ rPc = "done" <=> (FailedAttempts = rRetries \/ FailedAttempts < Len(rLog))
    /\ (rPc = "done" /\ FailedAttempts < Len(rLog)) => rResult = rReturned

\* C37: retry_bedrock_call always terminates: it makes at most 'retries'
\* calls, stops at the first call that returns (whatever it returns, None
\* included), and sleeps exactly once after every failed attempt, the last
\* one included, so that the number of sleeps is the number of failed
\* attempts
C37_RetryTerminates ==
    /\ []RetryBounded
    /\ <>(rPc = "done")

C37_Witness ==
    /\ rPc = "done"
    /\ rRetries >= 2
    /\ FailedAttempts = rRetries
    /\ Len(rSleeps) = rRetries
    /\ rSleeps[rRetries].attempt = rRetries

\* the place of a tag in the order the code appends them
TagRank(tag) ==
    CASE tag = "prompt_cache" -> 0
      [] tag = "context_memory" -> 1
      [] tag = "newly_cached" -> 2
      [] tag = "memory_stored" -> 3

StatsConsistent(stats) ==
    /\ stats.cache_hit <=> HasTag(stats, "prompt_cache")
    /\ stats.cache_hit => /\ stats.optimization_source = <<"prompt_cache">>
                          /\ stats.contexts_retrieved = 0
    /\ stats.memory_reused <=> HasTag(stats, "context_memory")
    /\ \A i, j \in 1..Len(stats.optimization_source) :
          i < j => TagRank(stats.optimization_source[i])
                      < TagRank(stats.optimization_source[j])

\* the stats dict a delivered snapshot shows: its own scalar fields and the
\* optimization_source list it shares with the live dict
SnapshotStats(i) ==
    [cache_hit |-> oYielded[i].stats.cache_hit,
     memory_reused |-> oYielded[i].stats.memory_reused,
     contexts_retrieved |-> oYielded[i].stats.contexts_retrieved,
     optimization_source |-> oStats.optimization_source]

\* C38: in the stats of a request, live, returned or delivered with a
\* fragment: cache_hit holds exactly when "prompt_cache" is in
\* optimization_source, and then optimization_source is ["prompt_cache"]
\* and contexts_retrieved is 0; memory_reused holds exactly when
\* "context_memory" is in it; no tag occurs twice and the tags present
\* stand in the order context_memory, newly_cached, memory_stored
C38_StatsConsistent ==
    /\ StatsConsistent(oStats)
    /\ oResult # NoResult => StatsConsistent(oResult.stats)
    /\ \A i \in 1..Len(oYielded) : StatsConsistent(SnapshotStats(i))

C38_Witness ==
    /\ oPc = "Done"
    /\ oStats.optimization_source = <<"context_memory", "newly_cached", "memory_stored">>
    /\ oStats.memory_reused
    /\ oStats.contexts_retrieved > 0

(***************************************************************************)
(* One turn of a chat front end (src/ui/chat_ui.py, src/app.py)            *)
(*                                                                         *)
(* uTurn holds the front end, the selected model, the history list kept    *)
(* across turns, the prompt cache of app.py and a record of the last turn: *)
(* what was typed, the history before it, the "messages" list sent to a    *)
(* Claude 3 model (None when nothing was sent), the number of model calls, *)
(* of streams consumed and of cache_response calls, and whether the turn   *)
(* ended in an uncaught exception.                                         *)
(***************************************************************************)
\* turns explored per session
MaxTurns == 2

\* run_chat_ui; app.py in conversational mode without and with an uploaded
\* document; app.py in RAG mode
FrontEnds == {"chat_ui", "app_chat", "app_doc", "app_rag"}

TurnModels == {"anthropic.claude-3-sonnet", "anthropic.claude-v2"}

TurnInputs == {<<"h", "i">>, <<"q">>}

\* texts a model call delivers (the empty text included)
TurnReplies == {<<>>, <<"o", "k">>}

\* what semantic_search_local finds in the uploaded document
TurnResults == {<<>>, <<Doc("f1]", 90, <<"y">>)>>,
                <<Doc("f1]", 90, <<"y">>), Doc("f2]", 40, <<"w", " ", "x">>)>>}

Greeting == <<"g", "r", "e", "e", "t">>

NoDocumentsText == <<"N", "o", " ", "d", "o", "c", "s">>

UserMessage(text) == [role |-> "user", content |-> text]

AssistantMessage(text) == [role |-> "assistant", content |-> text]

RECURSIVE JoinParagraphs(_)
\* "\n\n".join([r[2] for r in results])
JoinParagraphs(results) ==
    IF results = <<>> THEN <<>>
    ELSE IF Len(results) = 1 THEN Head(results).content
    ELSE Head(results).content \o <<"\n", "\n">> \o JoinParagraphs(Tail(results))

\* rag.py: the user turn answer_with_context_stream builds for Claude 3
ContextPromptMessage(context, question) ==
    [role |-> "user",
     content |-> <<"Use context.", "\n", "\n", "Context:", "\n">> \o context
                 \o <<"\n", "\n", "Question:", "\n">> \o question]

\* the "messages" field a helper sends for a Claude 3 model: the list it
\* was passed plus its own user turn; other families send a prompt
MessagesSent(m, passed, ownTurn) ==
    IF HasClaude3(m) THEN Append(passed, ownTurn) ELSE None

NoTurn == [kind |-> "none"]

TurnRecord(kind, input, before, sent, calls, streams, puts, failed) ==
    [kind |-> kind, input |-> input, before |-> before, sent |-> sent,
     calls |-> calls, streams |-> streams, puts |-> puts, failed |-> failed]

\* run_chat_ui starts with message_history = []; app.py puts the greeting
\* into the history of the conversational mode on the first run, the
\* history of the RAG mode starts empty
TurnInit ==
    uTurn \in {[ui |-> ui, model |-> m,
                history |-> IF ui \in {"app_chat", "app_doc"}
                            THEN <<AssistantMessage(Greeting)>>
                            ELSE <<>>,
                cache |-> EmptyCache, chunks |-> EmptyCache, turns |-> 0,
                last |-> NoTurn] : ui \in FrontEnds, m \in TurnModels}

\* chat_ui.py: the loop body of run_chat_ui; chat_with_bedrock returns the
\* text or, after a ClientError, None
TurnChatUi(input, reply) ==
    /\ uTurn.ui = "chat_ui"
    /\ uTurn.turns < MaxTurns
    /\ LET appended == Append(uTurn.history, UserMessage(input))
           sent == MessagesSent(uTurn.model, appended, UserMessage(input))
       IN uTurn' = [uTurn EXCEPT
              !.history = IF reply \notin {None, <<>>}
                          THEN Append(appended, AssistantMessage(reply))
                          ELSE appended,
              !.turns = @ + 1,
              !.last = TurnRecord("chat", input, uTurn.history, sent, 1, 0, 0, FALSE)]
    /\ UNCHANGED notTurn

\* app.py, conversational mode, no uploaded document: chat_stream is passed
\* temp_history and consumed
TurnAppChat(input, reply) ==
    /\ uTurn.ui = "app_chat"
    /\ uTurn.turns < MaxTurns
    /\ LET tempHistory == Append(uTurn.history, UserMessage(input))
           sent == MessagesSent(uTurn.model, tempHistory, UserMessage(input))
       IN uTurn' = [uTurn EXCEPT
              !.history = uTurn.history \o <<UserMessage(input), AssistantMessage(reply)>>,
              !.turns = @ + 1,
              !.last = TurnRecord("chat", input, uTurn.history, sent, 1, 1, 0, FALSE)]
    /\ UNCHANGED notTurn

\* app.py, uploaded document, the search finds nothing: the fixed text is
\* appended by the generic block
TurnAppDocNoResults(input) ==
    /\ uTurn.ui = "app_doc"
    /\ uTurn.turns < MaxTurns
    /\ uTurn' = [uTurn EXCEPT
           !.history = uTurn.history
                       \o <<UserMessage(input), AssistantMessage(NoDocumentsText)>>,
           !.turns = @ + 1,
           !.last = TurnRecord("nodocs", input, uTurn.history, None, 0, 0, 0, FALSE)]
    /\ UNCHANGED notTurn

\* app.py, uploaded document, get_cached_response finds nothing:
\* answer_with_context_stream is passed temp_history and consumed, the
\* response is cached and appended
TurnAppDocMiss(input, results, reply) ==
    /\ uTurn.ui = "app_doc"
    /\ uTurn.turns < MaxTurns
    /\ results # <<>>
    /\ LET context == JoinParagraphs(results)
           tempHistory == Append(uTurn.history, UserMessage(input))
           sent == MessagesSent(uTurn.model, tempHistory,
                                ContextPromptMessage(context, input))
       IN /\ GetCachedResponse(uTurn.cache, input, context) = NoEntry
          /\ uTurn' = [uTurn EXCEPT
                 !.history = uTurn.history
                             \o <<UserMessage(input), AssistantMessage(reply)>>,
                 !.chunks = CacheChunksOf(uTurn.chunks, results),
                 !.cache = CacheResponse(uTurn.cache, input, context, reply,
                                         uTurn.model, EstimatedTokensSaved(context)),
                 !.turns = @ + 1,
                 !.last = TurnRecord("miss", input, uTurn.history, sent, 1, 1, 1, FALSE)]
    /\ UNCHANGED notTurn

\* app.py, uploaded document, get_cached_response finds an entry: the
\* cached response is appended; the assistant block after the if/else then
\* iterates response_stream, a name only the else branch binds: NameError,
\* the script run ends there
TurnAppDocHit(input, results) ==
    /\ uTurn.ui = "app_doc"
    /\ uTurn.turns < MaxTurns
    /\ results # <<>>
    /\ LET context == JoinParagraphs(results)
           cached == GetCachedResponse(uTurn.cache, input, context)
       IN /\ cached # NoEntry
          /\ uTurn' = [uTurn EXCEPT
                 !.history = uTurn.history
                             \o <<UserMessage(input), AssistantMessage(cached.response)>>,
                 !.chunks = CacheChunksOf(uTurn.chunks, results),
                 !.turns = @ + 1,
                 !.last = TurnRecord("hit", input, uTurn.history, None, 0, 0, 0, TRUE)]
    /\ UNCHANGED notTurn

\* app.py, RAG mode: answer_with_optimization_stream is passed temp_history
\* and consumed; it answers from its cache (nothing is sent) or sends
\* its copy of the list plus the context prompt
TurnAppRag(input, servedFromCache, context, reply) ==
    /\ uTurn.ui = "app_rag"
    /\ uTurn.turns < MaxTurns
    /\ servedFromCache => uTurn.turns > 0
    /\ LET tempHistory == Append(uTurn.history, UserMessage(input))
           sent == IF servedFromCache THEN None
                   ELSE MessagesSent(uTurn.model, tempHistory,
                                     PromptMessage(context, input))
       IN uTurn' = [uTurn EXCEPT
              !.history = uTurn.history
                          \o <<UserMessage(input), AssistantMessage(reply)>>,
              !.turns = @ + 1,
              !.last = TurnRecord("rag", input, uTurn.history, sent,
                                  IF servedFromCache THEN 0 ELSE 1, 1, 0, FALSE)]
    /\ UNCHANGED notTurn

TurnNext ==
    \/ \E input \in TurnInputs, reply \in TurnReplies \cup {None} : TurnChatUi(input, reply)
    \/ \E input \in TurnInputs, reply \in TurnReplies : TurnAppChat(input, reply)
    \/ \E input \in TurnInputs : TurnAppDocNoResults(input)
    \/ \E input \in TurnInputs, results \in TurnResults, reply \in TurnReplies :
          TurnAppDocMiss(input, results, reply)
    \/ \E input \in TurnInputs, results \in TurnResults : TurnAppDocHit(input, results)
    \/ \E input \in TurnInputs, context \in {<<>>, <<"y">>}, reply \in TurnReplies,
          servedFromCache \in BOOLEAN :
          TurnAppRag(input, servedFromCache, context, reply)

InitTurn == TurnInit /\ RetryIdle /\ AdapterIdle /\ OrchIdle /\ CacheIdle /\ RagUiIdle
    /\ TagsIdle /\ SearchIdle /\ DispatchIdle /\ EquivIdle

SpecTurn == InitTurn /\ [][TurnNext]_vars

\* the message is a user turn carrying the text typed in the last turn: the
\* bare text, or a context prompt built around it
IsCurrentTurn(msg) ==
    /\ msg.role = "user"
    /\ \/ msg.content = uTurn.last.input
       \/ \E context \in {<<>>, <<"y">>} \cup {JoinParagraphs(r) : r \in TurnResults} :
             \/ msg = ContextPromptMessage(context, uTurn.last.input)
             \/ msg = PromptMessage(context, uTurn.last.input)

SentToClaude3 ==
    /\ uTurn.last # NoTurn
    /\ HasClaude3(uTurn.model)
    /\ uTurn.last.sent # None

\* C39: the "messages" list a front end sends to a Claude 3 model holds the
\* current user turn exactly once, as its last element, and before it the
\* history as it was before the turn
C39_CurrentTurnSentOnce ==
    SentToClaude3 =>
        LET sent == uTurn.last.sent
        IN /\ Len(sent) = Len(uTurn.last.before) + 1
           /\ SubSeq(sent, 1, Len(sent) - 1) = uTurn.last.before
           /\ IsCurrentTurn(sent[Len(sent)])

HitTurn == uTurn.last # NoTurn /\ uTurn.last.kind = "hit"

\* C40: in app.py's conversational mode with an uploaded document a
\* prompt-cache hit serves the stored response: the turn ends without an
\* error, no model call is made and no stream consumed, the history gains
\* the user message and exactly one assistant message, the cached one, and
\* cache_response is not called again
C40_CacheHitServesStoredResponse ==
    HitTurn =>
        /\ ~uTurn.last.failed
        /\ uTurn.last.calls = 0
        /\ uTurn.last.streams = 0
        /\ uTurn.last.puts = 0
        /\ Len(uTurn.history) = Len(uTurn.last.before) + 2
        /\ uTurn.history[Len(uTurn.history)].role = "assistant"

====
